---- MODULE Spec2Model ----
(***************************************************************************)
(* Model of the sharded in-memory cache of sk-pkg/cache (package mem):     *)
(* the shards with their RWMutex, the public operations of mem.Cache, the  *)
(* janitor goroutine of every shard that holds a modelled key, and the     *)
(* wall clock the operations and the janitors sample; and of the          *)
(* cache.Manager that cache.New builds over it and over the Redis backend  *)
(* (package redis), whose server is a map from keys to JSON bytes.         *)
(*                                                                         *)
(* Time is counted in whole seconds: time.Second is one unit of `now`.     *)
(* A lock()/unlock() pair is never one step: a caller first waits for the  *)
(* lock, then holds it, then runs the critical section and releases it, so *)
(* that mutual exclusion is a property of the lock and not of the model.   *)
(***************************************************************************)
EXTENDS Integers, Sequences, FiniteSets, TLC

\* ------------------------------------------------------------------ bounds
NumProcs == 2        \* caller goroutines
MaxCalls == 2        \* public operations the single caller starts
MaxConcCalls == 3    \* public operations the concurrent callers start
MaxTime == 3         \* the clock stops advancing here
MaxTtl == 1          \* largest `seconds` argument
MaxN == 2            \* largest `n` of Increment / Decrement
MaxKeyLen == 2       \* longest key whose routing is computed

\* --------------------------------------------------------------- constants
cacheGroupCount == 32

\* 2166136261 = 0x811C9DC5 and 16777619 = 0x01000193 do not fit TLC's 32-bit
\* signed integers: a uint32 is kept as <<high 16 bits, low 16 bits>>.
offsetBasis == <<33052, 40389>>
prime32 == <<256, 403>>

Procs == 1..NumProcs
Shards == 0..(cacheGroupCount - 1)

\* Keys are Go strings, modelled as their byte sequences: "a" and "A",
\* which live in the same shard (30).
Keys == {<<97>>, <<65>>}
\* the one key the concurrent callers fight over
HotKeys == {<<97>>}
\* "a" and "b", which live in different shards (30 and 29)
FlushKeys == {<<97>>, <<98>>}
NoKey == <<>>

\* the key that concurrent caller p alone writes: "a" and "A" share a shard,
\* "b" lives in another
WriterKey(p) == <<<<97>>, <<65>>, <<98>>>>[p]
WriterKeys == {WriterKey(p) : p \in Procs}

\* ------------------------------------------------------------------ values
\* A Go `any` is a dynamic type tag and a payload.
Nil == [t |-> "nil", v |-> 0]
IntV(i) == [t |-> "int", v |-> i]
StrV(i) == [t |-> "string", v |-> i]
BoolV(b) == [t |-> "bool", v |-> IF b THEN 1 ELSE 0]

\* the values callers store
Values == {StrV(1), IntV(1)}
\* the values of the calls that also store a nil interface
NilValues == {Nil, StrV(1)}
\* `seconds` is a Go int: negative, zero and positive arguments
Ttls == {0 - 1, 0, MaxTtl}
Amounts == {0 - 1, 1, MaxN}

\* ------------------------------------------------------------------- fnv32
RECURSIVE XorBits(_, _, _)
XorBits(a, b, bits) ==
    IF bits = 0 THEN 0
    ELSE ((a + b) % 2) + 2 * XorBits(a \div 2, b \div 2, bits - 1)

\* hash *= prime32 on a uint32 held as two 16-bit halves (mod 2^32)
MulPrime(h) ==
    LET lo == h[2] * prime32[2]
        hi == h[1] * prime32[2] + h[2] * prime32[1] + (lo \div 65536)
    IN  <<hi % 65536, lo % 65536>>

\* hash ^= uint32(b) for one byte b
XorByte(h, b) == <<h[1], XorBits(h[2], b, 16)>>

RECURSIVE fnv32From(_, _, _)
fnv32From(hash, key, i) ==
    IF i > Len(key) THEN hash
    ELSE fnv32From(XorByte(MulPrime(hash), key[i]), key, i + 1)

\* the FNV-1a order: xor the byte first, then multiply
RECURSIVE Fnv1aFrom(_, _, _)
Fnv1aFrom(hash, key, i) ==
    IF i > Len(key) THEN hash
    ELSE Fnv1aFrom(MulPrime(XorByte(hash, key[i])), key, i + 1)

Mut_fnv32_XorFirst(key) == Fnv1aFrom(offsetBasis, key, 1)

fnv32(key) == fnv32From(offsetBasis, key, 1)

\* a shard index taken modulo one more than the number of shards
Mut_getGroup_OffByOne(key) == fnv32(key)[2] % (cacheGroupCount + 1)

\* index of the shard of a key: uint(fnv32(key)) % uint(cacheGroupCount)
getGroup(key) == fnv32(key)[2] % cacheGroupCount

\* the keys whose routing is computed: every string of at most MaxKeyLen
\* bytes out of "a" and 0xFF
RouteBytes == {97, 255}

RECURSIVE KeysUpTo(_)
KeysUpTo(n) ==
    IF n = 0 THEN {<<>>}
    ELSE LET S == KeysUpTo(n - 1)
         IN  S \cup {Append(k, b) : k \in S, b \in RouteBytes}

RouteKeys == KeysUpTo(MaxKeyLen)

\* the janitors that are modelled: those of the shards that hold a key
SweptShards == {getGroup(k) : k \in Keys}
FlushShards == {getGroup(k) : k \in FlushKeys}

\* ------------------------------------------------------------------- state
VARIABLES
    items,   \* items[s]: the map of shard s, a function from keys to items
    mu,      \* mu[s]: the RWMutex of shard s
    now,     \* the wall clock, in seconds
    proc,    \* proc[p]: where caller p is and the locals of its call
    ret,     \* ret[p]: what the last finished call of p returned
    jan,     \* jan[s]: the janitor goroutine of shard s
    calls,   \* number of public operations that may still be started
    mgr,     \* the cache.Manager: its Mem and Redis handles and its default
    rds      \* the keys of the Redis server: JSON bytes and time to live

vars == <<items, mu, now, proc, ret, jan, calls, mgr, rds>>

EmptyMap == [k \in {} |-> Nil]

\* an entry of a shard's map, and the zero item a failed lookup yields
Item(value, e) == [value |-> value, Expiration |-> e]
ZeroItem == Item(Nil, 0)

\* the locals of a call: its arguments, e (Put's expiration), v and ok (the
\* result of a map lookup), i (Flush's loop index)
Idle == [pc |-> "idle", key |-> NoKey, value |-> Nil, seconds |-> 0,
         n |-> 0, e |-> 0, v |-> ZeroItem, ok |-> FALSE, i |-> 0]

NoRet == [op |-> "none", key |-> NoKey, val |-> Nil, err |-> "nil"]

\* the identity under which the janitor of shard s holds the lock
JanitorId(s) == 0 - (s + 1)

\* the option values of cache.New: the driver names, the two a caller may
\* also pass ("" when WithDefaultDriver is not used, "file" is no driver)
MemCache == "mem"
RedisCache == "redis"
Drivers == {"", MemCache, RedisCache, "file"}

\* "go_cache:"
DefaultPrefix == <<103, 111, 95, 99, 97, 99, 104, 101, 58>>

\* a *redisManager.Manager: nil, or a connection pool
RedisManagers == {"nil", "pool"}

\* redis.Config values: the zero value, one with an address, and one that
\* is not the zero value but has no address
Config(address, password, prefix) ==
    [Address |-> address, Password |-> password, Prefix |-> prefix]
EmptyConfig == Config("", "", "")
Configs == {EmptyConfig, Config("host:6379", "", ""), Config("", "secret", "")}

\* a *redis.Cache: the nil pointer, or a Cache with its manager and prefix
RedisHandle(redisManager, prefix) ==
    [nil |-> FALSE, redis |-> redisManager, prefix |-> prefix]
NilCache == [nil |-> TRUE, redis |-> "nil", prefix |-> <<>>]

\* the zero Manager: before cache.New nothing is initialised
NoManager == [Mem |-> "nil", Redis |-> NilCache, defaultCache |-> "nil"]

\* the cache as mem.Init() returns it: empty maps, free locks, every janitor
\* waiting in its select; no Manager yet and an empty Redis server
Fresh ==
    /\ items = [s \in Shards |-> EmptyMap]
    /\ mu = [s \in Shards |-> [w |-> 0, pend |-> 0, r |-> {}]]
    /\ now = 1
    /\ proc = [p \in Procs |-> Idle]
    /\ ret = [p \in Procs |-> NoRet]
    /\ jan = [s \in Shards |-> [pc |-> "select", now |-> 0]]
    /\ mgr = NoManager
    /\ rds = EmptyMap

Init == Fresh /\ calls = MaxCalls

InitConc == Fresh /\ calls = MaxConcCalls

\* the single caller with one more call, to fill two shards before a Flush
InitFlush == Fresh /\ calls = MaxCalls + 1

\* ------------------------------------------------------------ sync.RWMutex
\* Lock(): a writer gets the lock when nobody holds it; while readers hold
\* it the writer announces itself (pend) and new readers are kept out.
CanLock(s, id) ==
    /\ mu[s].w = 0
    /\ mu[s].pend \in {0, id}
    /\ mu[s].r = {}

MustAnnounce(s, id) ==
    /\ mu[s].w = 0
    /\ mu[s].pend = 0
    /\ mu[s].r # {}

Locked(s, id) == [mu EXCEPT ![s].w = id, ![s].pend = 0]
Announced(s, id) == [mu EXCEPT ![s].pend = id]
Unlocked(s) == [mu EXCEPT ![s].w = 0]

\* RLock(): a reader gets in unless a writer holds or has announced
CanRLock(s) ==
    /\ mu[s].w = 0
    /\ mu[s].pend = 0

RLocked(s, id) == [mu EXCEPT ![s].r = @ \cup {id}]
RUnlocked(s, id) == [mu EXCEPT ![s].r = @ \ {id}]

\* ----------------------------------------------------------------- helpers
\* v, ok := m[k]
Lookup(m, k) == IF k \in DOMAIN m THEN m[k] ELSE ZeroItem
Present(m, k) == k \in DOMAIN m
Store(m, k, it) == [x \in (DOMAIN m) \cup {k} |-> IF x = k THEN it ELSE m[x]]
Delete(m, k) == [x \in (DOMAIN m) \ {k} |-> m[x]]

\* time.Now().Add(time.Duration(seconds) * time.Second).UnixNano(), or 0
\* an expiration that only the argument 0 switches off
Mut_Expiry_ZeroOnly(t, seconds) == IF seconds # 0 THEN t + seconds ELSE 0

Expiry(t, seconds) == IF seconds > 0 THEN t + seconds ELSE 0

\* caller p starts a public operation
Begin(p, frame) ==
    /\ proc[p].pc = "idle"
    /\ calls > 0
    /\ calls' = calls - 1
    /\ proc' = [proc EXCEPT ![p] = frame]
    /\ ret' = [ret EXCEPT ![p] = NoRet]

\* caller p returns from operation op: ret[p] keeps the operation, its key
\* and the returned value and error until p's next call
Return(p, op, val, err) ==
    /\ proc' = [proc EXCEPT ![p] = Idle]
    /\ ret' = [ret EXCEPT ![p] = [op |-> op, key |-> proc[p].key,
                                  val |-> val, err |-> err]]

\* caller p, blocked in group.Lock() at pc `from`, goes on to `to`
WaitLock(p, from, to) ==
    /\ proc[p].pc = from
    /\ LET s == getGroup(proc[p].key) IN
        \/ /\ CanLock(s, p)
           /\ mu' = Locked(s, p)
           /\ proc' = [proc EXCEPT ![p].pc = to]
        \/ /\ MustAnnounce(s, p)
           /\ mu' = Announced(s, p)
           /\ UNCHANGED proc
    /\ UNCHANGED <<items, now, ret, jan, calls, mgr, rds>>

\* caller p, blocked in group.RLock() at pc `from`, goes on to `to`
WaitRLock(p, from, to) ==
    /\ proc[p].pc = from
    /\ CanRLock(getGroup(proc[p].key))
    /\ mu' = RLocked(getGroup(proc[p].key), p)
    /\ proc' = [proc EXCEPT ![p].pc = to]
    /\ UNCHANGED <<items, now, ret, jan, calls, mgr, rds>>

\* --------------------------------------------------------------------- Put
Put(p, key, value, seconds) ==
    /\ Begin(p, [Idle EXCEPT !.pc = "Put_Lock", !.key = key, !.value = value,
                             !.seconds = seconds,
                             !.e = Expiry(now, seconds)])
    /\ UNCHANGED <<items, mu, now, jan, mgr, rds>>

Put_Lock(p) == WaitLock(p, "Put_Lock", "Put_Store")

\* Put that drops the expiration it computed
Mut_Put_Store_NoExpiry(p) ==
    /\ proc[p].pc = "Put_Store"
    /\ LET s == getGroup(proc[p].key) IN
        /\ items' = [items EXCEPT ![s] = Store(@, proc[p].key,
                                               Item(proc[p].value, 0))]
        /\ mu' = Unlocked(s)
    /\ Return(p, "Put", Nil, "nil")
    /\ UNCHANGED <<now, jan, calls, mgr, rds>>

\* Put that assigns the shard a new map holding only its entry
Mut_Put_Store_Replaces(p) ==
    /\ proc[p].pc = "Put_Store"
    /\ LET s == getGroup(proc[p].key) IN
        /\ items' = [items EXCEPT ![s] = Store(EmptyMap, proc[p].key,
                                            Item(proc[p].value, proc[p].e))]
        /\ mu' = Unlocked(s)
    /\ Return(p, "Put", Nil, "nil")
    /\ UNCHANGED <<now, jan, calls, mgr, rds>>

\* group.items[key] = data; group.Unlock(); return nil
\* Put that stores into the shard next to the one it locked
Mut_Put_Store_NextShard(p) ==
    /\ proc[p].pc = "Put_Store"
    /\ LET s == getGroup(proc[p].key) IN
        /\ items' = [items EXCEPT ![(s + 1) % cacheGroupCount] =
                        Store(@, proc[p].key, Item(proc[p].value, proc[p].e))]
        /\ mu' = Unlocked(s)
    /\ Return(p, "Put", Nil, "nil")
    /\ UNCHANGED <<now, jan, calls, mgr, rds>>

Put_Store(p) ==
    /\ proc[p].pc = "Put_Store"
    /\ LET s == getGroup(proc[p].key) IN
        /\ items' = [items EXCEPT ![s] = Store(@, proc[p].key,
                                            Item(proc[p].value, proc[p].e))]
        /\ mu' = Unlocked(s)
    /\ Return(p, "Put", Nil, "nil")
    /\ UNCHANGED <<now, jan, calls, mgr, rds>>

\* --------------------------------------------------------------------- Add
Add(p, key, value, seconds) ==
    /\ Begin(p, [Idle EXCEPT !.pc = "Add_Lock", !.key = key, !.value = value,
                             !.seconds = seconds])
    /\ UNCHANGED <<items, mu, now, jan, mgr, rds>>

\* Add that goes on without taking the lock
Mut_Add_Lock_None(p) ==
    /\ proc[p].pc = "Add_Lock"
    /\ proc' = [proc EXCEPT ![p].pc = "Add_Check"]
    /\ UNCHANGED <<items, mu, now, ret, jan, calls, mgr, rds>>

\* group.Lock()
Add_Lock(p) == WaitLock(p, "Add_Lock", "Add_Check")

\* Add that takes an entry whose expiration has passed for a missing one
Mut_Add_Check_ChecksExpiry(p) ==
    /\ proc[p].pc = "Add_Check"
    /\ LET m == items[getGroup(proc[p].key)] IN
        proc' = [proc EXCEPT ![p].pc = "Add_Store",
                       ![p].ok = /\ Present(m, proc[p].key)
                                 /\ ~(m[proc[p].key].Expiration > 0
                                      /\ now > m[proc[p].key].Expiration)]
    /\ UNCHANGED <<items, mu, now, ret, jan, calls, mgr, rds>>

\* _, ok := group.items[key]
Add_Check(p) ==
    /\ proc[p].pc = "Add_Check"
    /\ proc' = [proc EXCEPT ![p].pc = "Add_Store",
                   ![p].ok = Present(items[getGroup(proc[p].key)], proc[p].key)]
    /\ UNCHANGED <<items, mu, now, ret, jan, calls, mgr, rds>>

\* if !ok { group.items[key] = item{...} }; group.Unlock()
Add_Store(p) ==
    /\ proc[p].pc = "Add_Store"
    /\ LET s == getGroup(proc[p].key) IN
        /\ items' = IF proc[p].ok THEN items
                    ELSE [items EXCEPT ![s] = Store(@, proc[p].key,
                            Item(proc[p].value, Expiry(now, proc[p].seconds)))]
        /\ mu' = Unlocked(s)
    /\ Return(p, "Add", Nil, "nil")
    /\ UNCHANGED <<now, jan, calls, mgr, rds>>

\* --------------------------------------------------------------------- Get
Get(p, key) ==
    /\ Begin(p, [Idle EXCEPT !.pc = "Get_RLock", !.key = key])
    /\ UNCHANGED <<items, mu, now, jan, mgr, rds>>

Get_RLock(p) == WaitRLock(p, "Get_RLock", "Get_Read")

\* Get that hides an entry whose expiration has passed
Mut_Get_Read_Expiring(p) ==
    /\ proc[p].pc = "Get_Read"
    /\ LET s == getGroup(proc[p].key)
           it == Lookup(items[s], proc[p].key)
       IN
        /\ mu' = RUnlocked(s, p)
        /\ Return(p, "Get",
                  IF it.Expiration > 0 /\ now > it.Expiration THEN Nil
                  ELSE it.value, "nil")
    /\ UNCHANGED <<items, now, jan, calls, mgr, rds>>

\* Get that reports a key that is not in the map as an error
Mut_Get_Read_MissError(p) ==
    /\ proc[p].pc = "Get_Read"
    /\ LET s == getGroup(proc[p].key) IN
        /\ mu' = RUnlocked(s, p)
        /\ Return(p, "Get", Lookup(items[s], proc[p].key).value,
                  IF Present(items[s], proc[p].key) THEN "nil"
                  ELSE "not_found")
    /\ UNCHANGED <<items, now, jan, calls, mgr, rds>>

\* Get that returns without releasing the read lock
Mut_Get_Read_NoRUnlock(p) ==
    /\ proc[p].pc = "Get_Read"
    /\ Return(p, "Get", Lookup(items[getGroup(proc[p].key)], proc[p].key).value,
              "nil")
    /\ UNCHANGED <<items, mu, now, jan, calls, mgr, rds>>

\* i, _ := group.items[key]; group.RUnlock(); return i.value, nil
Get_Read(p) ==
    /\ proc[p].pc = "Get_Read"
    /\ LET s == getGroup(proc[p].key) IN
        /\ mu' = RUnlocked(s, p)
        /\ Return(p, "Get", Lookup(items[s], proc[p].key).value, "nil")
    /\ UNCHANGED <<items, now, jan, calls, mgr, rds>>

\* --------------------------------------------------------------------- Has
Has(p, key) ==
    /\ Begin(p, [Idle EXCEPT !.pc = "Has_RLock", !.key = key])
    /\ UNCHANGED <<items, mu, now, jan, mgr, rds>>

Has_RLock(p) == WaitRLock(p, "Has_RLock", "Has_Read")

\* Has that looks at the value: a key that holds nil is reported missing
Mut_Has_Read_NonNil(p) ==
    /\ proc[p].pc = "Has_Read"
    /\ LET s == getGroup(proc[p].key) IN
        /\ mu' = RUnlocked(s, p)
        /\ Return(p, "Has",
                  BoolV(Lookup(items[s], proc[p].key).value # Nil), "nil")
    /\ UNCHANGED <<items, now, jan, calls, mgr, rds>>

\* _, ok := group.items[key]; group.RUnlock(); return ok
Has_Read(p) ==
    /\ proc[p].pc = "Has_Read"
    /\ LET s == getGroup(proc[p].key) IN
        /\ mu' = RUnlocked(s, p)
        /\ Return(p, "Has", BoolV(Present(items[s], proc[p].key)), "nil")
    /\ UNCHANGED <<items, now, jan, calls, mgr, rds>>

\* -------------------------------------------------------------------- Pull
\* v and ok are history only: the entry of key when Pull is called
Pull(p, key) ==
    /\ Begin(p, [Idle EXCEPT !.pc = "Pull_RLock", !.key = key,
                             !.v = Lookup(items[getGroup(key)], key),
                             !.ok = Present(items[getGroup(key)], key)])
    /\ UNCHANGED <<items, mu, now, jan, mgr, rds>>

Pull_RLock(p) == WaitRLock(p, "Pull_RLock", "Pull_Read")

\* Pull whose Get hands its lock over to the Forget: one critical section
Mut_Pull_Read_KeepsLock(p) ==
    /\ proc[p].pc = "Pull_Read"
    /\ LET s == getGroup(proc[p].key) IN
        /\ mu[s].r = {p}
        /\ mu' = [mu EXCEPT ![s] = [w |-> p, pend |-> 0, r |-> {}]]
        /\ proc' = [proc EXCEPT ![p].pc = "Pull_Delete",
                       ![p].value = Lookup(items[s], proc[p].key).value]
    /\ UNCHANGED <<items, now, ret, jan, calls, mgr, rds>>

\* value, err := c.Get(key)
Pull_Read(p) ==
    /\ proc[p].pc = "Pull_Read"
    /\ LET s == getGroup(proc[p].key) IN
        /\ mu' = RUnlocked(s, p)
        /\ proc' = [proc EXCEPT ![p].pc = "Pull_Lock",
                       ![p].value = Lookup(items[s], proc[p].key).value]
    /\ UNCHANGED <<items, now, ret, jan, calls, mgr, rds>>

Pull_Lock(p) == WaitLock(p, "Pull_Lock", "Pull_Delete")

\* Pull that fails when there is nothing to forget
Mut_Pull_Delete_MissError(p) ==
    /\ proc[p].pc = "Pull_Delete"
    /\ LET s == getGroup(proc[p].key) IN
        /\ items' = [items EXCEPT ![s] = Delete(@, proc[p].key)]
        /\ mu' = Unlocked(s)
        /\ Return(p, "Pull", proc[p].value,
                  IF Present(items[s], proc[p].key) THEN "nil"
                  ELSE "not_found")
    /\ UNCHANGED <<now, jan, calls, mgr, rds>>

\* Pull that returns the value and leaves the entry in the map
Mut_Pull_Delete_Keeps(p) ==
    /\ proc[p].pc = "Pull_Delete"
    /\ items' = items
    /\ mu' = Unlocked(getGroup(proc[p].key))
    /\ Return(p, "Pull", proc[p].value, "nil")
    /\ UNCHANGED <<now, jan, calls, mgr, rds>>

\* _, err = c.Forget(key); return value, nil
Pull_Delete(p) ==
    /\ proc[p].pc = "Pull_Delete"
    /\ LET s == getGroup(proc[p].key) IN
        /\ items' = [items EXCEPT ![s] = Delete(@, proc[p].key)]
        /\ mu' = Unlocked(s)
    /\ Return(p, "Pull", proc[p].value, "nil")
    /\ UNCHANGED <<now, jan, calls, mgr, rds>>

\* ----------------------------------------------------------------- Forever
Forever(p, key, value) ==
    /\ Begin(p, [Idle EXCEPT !.pc = "Forever_Lock", !.key = key,
                             !.value = value])
    /\ UNCHANGED <<items, mu, now, jan, mgr, rds>>

Forever_Lock(p) == WaitLock(p, "Forever_Lock", "Forever_Store")

Forever_Store(p) ==
    /\ proc[p].pc = "Forever_Store"
    /\ LET s == getGroup(proc[p].key) IN
        /\ items' = [items EXCEPT ![s] = Store(@, proc[p].key,
                                               Item(proc[p].value, 0))]
        /\ mu' = Unlocked(s)
    /\ Return(p, "Forever", Nil, "nil")
    /\ UNCHANGED <<now, jan, calls, mgr, rds>>

\* ------------------------------------------------------------------ Forget
Forget(p, key) ==
    /\ Begin(p, [Idle EXCEPT !.pc = "Forget_Lock", !.key = key])
    /\ UNCHANGED <<items, mu, now, jan, mgr, rds>>

\* Forget that takes the read lock of the shard before it deletes
Mut_Forget_Lock_Read(p) == WaitRLock(p, "Forget_Lock", "Forget_Delete")

Forget_Lock(p) == WaitLock(p, "Forget_Lock", "Forget_Delete")

\* delete(group.items, key); group.Unlock(); return true, nil
\* Forget that clears the map of the shard instead of deleting its key
Mut_Forget_Delete_ClearsShard(p) ==
    /\ proc[p].pc = "Forget_Delete"
    /\ LET s == getGroup(proc[p].key) IN
        /\ items' = [items EXCEPT ![s] = EmptyMap]
        /\ mu' = Unlocked(s)
    /\ Return(p, "Forget", BoolV(TRUE), "nil")
    /\ UNCHANGED <<now, jan, calls, mgr, rds>>

Forget_Delete(p) ==
    /\ proc[p].pc = "Forget_Delete"
    /\ LET s == getGroup(proc[p].key) IN
        /\ items' = [items EXCEPT ![s] = Delete(@, proc[p].key)]
        /\ mu' = Unlocked(s)
    /\ Return(p, "Forget", BoolV(TRUE), "nil")
    /\ UNCHANGED <<now, jan, calls, mgr, rds>>

\* --------------------------------------------------------------- Increment
Increment(p, key, n) ==
    /\ Begin(p, [Idle EXCEPT !.pc = "Increment_Lock", !.key = key, !.n = n])
    /\ UNCHANGED <<items, mu, now, jan, mgr, rds>>

\* Increment that guards its read-modify-write with the read lock only
Mut_Increment_Lock_Read(p) ==
    WaitRLock(p, "Increment_Lock", "Increment_Read")

\* defer group.Unlock(); group.Lock()
Increment_Lock(p) == WaitLock(p, "Increment_Lock", "Increment_Read")

\* Increment that looks at the expiration and takes an expired entry for a
\* missing one
Mut_Increment_Read_ChecksExpiry(p) ==
    /\ proc[p].pc = "Increment_Read"
    /\ LET s == getGroup(proc[p].key)
           v == Lookup(items[s], proc[p].key) IN
        proc' = [proc EXCEPT ![p].pc = "Increment_Write",
                             ![p].v = v,
                             ![p].ok = /\ Present(items[s], proc[p].key)
                                       /\ ~(v.Expiration > 0
                                            /\ now > v.Expiration)]
    /\ UNCHANGED <<items, mu, now, ret, jan, calls, mgr, rds>>

\* v, ok := group.items[key]
Increment_Read(p) ==
    /\ proc[p].pc = "Increment_Read"
    /\ LET s == getGroup(proc[p].key) IN
        proc' = [proc EXCEPT ![p].pc = "Increment_Write",
                             ![p].v = Lookup(items[s], proc[p].key),
                             ![p].ok = Present(items[s], proc[p].key)]
    /\ UNCHANGED <<items, mu, now, ret, jan, calls, mgr, rds>>

\* Increment that counts a value of another type as 0
Mut_Increment_Write_Coerces(p) ==
    /\ proc[p].pc = "Increment_Write"
    /\ LET s == getGroup(proc[p].key)
           v == proc[p].v
           nv == (IF v.value.t = "int" THEN v.value.v ELSE 0) + proc[p].n
       IN
        /\ mu' = Unlocked(s)
        /\ IF ~proc[p].ok
           THEN /\ items' = [items EXCEPT ![s] = Store(@, proc[p].key,
                                                Item(IntV(proc[p].n), 0))]
                /\ Return(p, "Increment", IntV(proc[p].n), "nil")
           ELSE /\ items' = [items EXCEPT ![s] = Store(@, proc[p].key,
                                                Item(IntV(nv), v.Expiration))]
                /\ Return(p, "Increment", IntV(nv), "nil")
    /\ UNCHANGED <<now, jan, calls, mgr, rds>>

\* the rest of the body, with the deferred Unlock on every return path
Increment_Write(p) ==
    /\ proc[p].pc = "Increment_Write"
    /\ LET s == getGroup(proc[p].key)
           v == proc[p].v
           nv == v.value.v + proc[p].n
       IN
        /\ mu' = Unlocked(s)
        /\ IF ~proc[p].ok
           THEN /\ items' = [items EXCEPT ![s] = Store(@, proc[p].key,
                                                Item(IntV(proc[p].n), 0))]
                /\ Return(p, "Increment", IntV(proc[p].n), "nil")
           ELSE IF v.value.t # "int"
           THEN /\ items' = items
                /\ Return(p, "Increment", IntV(0), "invalid_type")
           ELSE /\ items' = [items EXCEPT ![s] = Store(@, proc[p].key,
                                                Item(IntV(nv), v.Expiration))]
                /\ Return(p, "Increment", IntV(nv), "nil")
    /\ UNCHANGED <<now, jan, calls, mgr, rds>>

\* --------------------------------------------------------------- Decrement
Decrement(p, key, n) ==
    /\ Begin(p, [Idle EXCEPT !.pc = "Decrement_Lock", !.key = key, !.n = n])
    /\ UNCHANGED <<items, mu, now, jan, mgr, rds>>

\* defer group.Unlock(); group.Lock()
Decrement_Lock(p) == WaitLock(p, "Decrement_Lock", "Decrement_Read")

\* v, ok := group.items[key]
Decrement_Read(p) ==
    /\ proc[p].pc = "Decrement_Read"
    /\ LET s == getGroup(proc[p].key) IN
        proc' = [proc EXCEPT ![p].pc = "Decrement_Write",
                             ![p].v = Lookup(items[s], proc[p].key),
                             ![p].ok = Present(items[s], proc[p].key)]
    /\ UNCHANGED <<items, mu, now, ret, jan, calls, mgr, rds>>

\* Decrement that adds n
Mut_Decrement_Write_Adds(p) ==
    /\ proc[p].pc = "Decrement_Write"
    /\ LET s == getGroup(proc[p].key)
           v == proc[p].v
           nv == v.value.v + proc[p].n
       IN
        /\ mu' = Unlocked(s)
        /\ IF ~proc[p].ok
           THEN /\ items' = items
                /\ Return(p, "Decrement", IntV(proc[p].n), "undefined_key")
           ELSE IF v.value.t # "int"
           THEN /\ items' = items
                /\ Return(p, "Decrement", IntV(0), "invalid_type")
           ELSE /\ items' = [items EXCEPT ![s] = Store(@, proc[p].key,
                                                Item(IntV(nv), v.Expiration))]
                /\ Return(p, "Decrement", IntV(nv), "nil")
    /\ UNCHANGED <<now, jan, calls, mgr, rds>>

\* Decrement that creates a missing key the way Increment does
Mut_Decrement_Write_Creates(p) ==
    /\ proc[p].pc = "Decrement_Write"
    /\ LET s == getGroup(proc[p].key)
           v == proc[p].v
           nv == v.value.v - proc[p].n
       IN
        /\ mu' = Unlocked(s)
        /\ IF ~proc[p].ok
           THEN /\ items' = [items EXCEPT ![s] = Store(@, proc[p].key,
                                            Item(IntV(0 - proc[p].n), 0))]
                /\ Return(p, "Decrement", IntV(0 - proc[p].n), "nil")
           ELSE IF v.value.t # "int"
           THEN /\ items' = items
                /\ Return(p, "Decrement", IntV(0), "invalid_type")
           ELSE /\ items' = [items EXCEPT ![s] = Store(@, proc[p].key,
                                                Item(IntV(nv), v.Expiration))]
                /\ Return(p, "Decrement", IntV(nv), "nil")
    /\ UNCHANGED <<now, jan, calls, mgr, rds>>

\* Decrement that returns the missing-key error with the lock held
Mut_Decrement_Write_MissLocked(p) ==
    /\ proc[p].pc = "Decrement_Write"
    /\ LET s == getGroup(proc[p].key)
           v == proc[p].v
           nv == v.value.v - proc[p].n
       IN
        IF ~proc[p].ok
        THEN /\ items' = items
             /\ mu' = mu
             /\ Return(p, "Decrement", IntV(proc[p].n), "undefined_key")
        ELSE IF v.value.t # "int"
        THEN /\ items' = items
             /\ mu' = Unlocked(s)
             /\ Return(p, "Decrement", IntV(0), "invalid_type")
        ELSE /\ items' = [items EXCEPT ![s] = Store(@, proc[p].key,
                                             Item(IntV(nv), v.Expiration))]
             /\ mu' = Unlocked(s)
             /\ Return(p, "Decrement", IntV(nv), "nil")
    /\ UNCHANGED <<now, jan, calls, mgr, rds>>

\* the rest of the body, with the deferred Unlock on every return path
Decrement_Write(p) ==
    /\ proc[p].pc = "Decrement_Write"
    /\ LET s == getGroup(proc[p].key)
           v == proc[p].v
           nv == v.value.v - proc[p].n
       IN
        /\ mu' = Unlocked(s)
        /\ IF ~proc[p].ok
           THEN /\ items' = items
                /\ Return(p, "Decrement", IntV(proc[p].n), "undefined_key")
           ELSE IF v.value.t # "int"
           THEN /\ items' = items
                /\ Return(p, "Decrement", IntV(0), "invalid_type")
           ELSE /\ items' = [items EXCEPT ![s] = Store(@, proc[p].key,
                                                Item(IntV(nv), v.Expiration))]
                /\ Return(p, "Decrement", IntV(nv), "nil")
    /\ UNCHANGED <<now, jan, calls, mgr, rds>>

\* ------------------------------------------------------------------- Flush
Flush(p) ==
    /\ Begin(p, [Idle EXCEPT !.pc = "Flush_Lock", !.i = 0])
    /\ UNCHANGED <<items, mu, now, jan, mgr, rds>>

\* group.Lock() of the shard the loop is at
Flush_Lock(p) ==
    /\ proc[p].pc = "Flush_Lock"
    /\ LET s == proc[p].i IN
        \/ /\ CanLock(s, p)
           /\ mu' = Locked(s, p)
           /\ proc' = [proc EXCEPT ![p].pc = "Flush_Clear"]
        \/ /\ MustAnnounce(s, p)
           /\ mu' = Announced(s, p)
           /\ UNCHANGED proc
    /\ UNCHANGED <<items, now, ret, jan, calls, mgr, rds>>

\* Flush that returns from inside the loop, after the first shard
Mut_Flush_Clear_FirstOnly(p) ==
    /\ proc[p].pc = "Flush_Clear"
    /\ LET s == proc[p].i IN
        /\ items' = [items EXCEPT ![s] = EmptyMap]
        /\ mu' = Unlocked(s)
        /\ Return(p, "Flush", Nil, "nil")
    /\ UNCHANGED <<now, jan, calls, mgr, rds>>

\* Flush that empties every shard in the step that clears the first one
Mut_Flush_Clear_Whole(p) ==
    /\ proc[p].pc = "Flush_Clear"
    /\ LET s == proc[p].i IN
        /\ items' = [t \in Shards |-> EmptyMap]
        /\ mu' = Unlocked(s)
        /\ IF s + 1 < cacheGroupCount
           THEN /\ proc' = [proc EXCEPT ![p].pc = "Flush_Lock", ![p].i = s + 1]
                /\ UNCHANGED ret
           ELSE Return(p, "Flush", Nil, "nil")
    /\ UNCHANGED <<now, jan, calls, mgr, rds>>

\* Flush that unlocks nothing inside its loop and goes on to the next
\* shard with the lock of the last one held
Mut_Flush_Clear_KeepsLock(p) ==
    /\ proc[p].pc = "Flush_Clear"
    /\ LET s == proc[p].i IN
        /\ items' = [items EXCEPT ![s] = EmptyMap]
        /\ mu' = mu
        /\ IF s + 1 < cacheGroupCount
           THEN /\ proc' = [proc EXCEPT ![p].pc = "Flush_Lock", ![p].i = s + 1]
                /\ UNCHANGED ret
           ELSE Return(p, "Flush", Nil, "nil")
    /\ UNCHANGED <<now, jan, calls, mgr, rds>>

\* clear(group.items); group.Unlock(); next shard, or return nil
Flush_Clear(p) ==
    /\ proc[p].pc = "Flush_Clear"
    /\ LET s == proc[p].i IN
        /\ items' = [items EXCEPT ![s] = EmptyMap]
        /\ mu' = Unlocked(s)
        /\ IF s + 1 < cacheGroupCount
           THEN /\ proc' = [proc EXCEPT ![p].pc = "Flush_Lock", ![p].i = s + 1]
                /\ UNCHANGED ret
           ELSE Return(p, "Flush", Nil, "nil")
    /\ UNCHANGED <<now, jan, calls, mgr, rds>>

\* ------------------------------- Increment / Decrement, read-lock variant
\* The version of package mem in src/mem/janitor.go guards the counters with
\* group.RLock() only and returns from the type-mismatch path without
\* RUnlock().  A read lock that is never released is kept in mu[s].r under
\* an identity of its own, so that later calls of the same goroutine do not
\* release it.
Leaked(p) == p + NumProcs

\* the positions in which a caller accesses the map under the read lock
RacingPcs ==
    {"Get_Read", "Has_Read", "Pull_Read", "IncrementRL_Read",
     "IncrementRL_Write", "DecrementRL_Read", "DecrementRL_Write"}

\* another goroutine is accessing the map of p's shard while p writes it
Racing(p) ==
    \E q \in Procs \ {p} :
        /\ proc[q].pc \in RacingPcs
        /\ getGroup(proc[q].key) = getGroup(proc[p].key)

\* a map write that overlaps another access is a data race: the write may
\* go through, or the runtime may stop the program ("concurrent map writes")
Fatal(p) ==
    /\ Racing(p)
    /\ proc' = [proc EXCEPT ![p].pc = "fatal"]
    /\ calls' = 0
    /\ UNCHANGED <<items, mu, now, ret, jan, mgr, rds>>

IncrementRL(p, key, n) ==
    /\ Begin(p, [Idle EXCEPT !.pc = "IncrementRL_RLock", !.key = key,
                             !.n = n])
    /\ UNCHANGED <<items, mu, now, jan, mgr, rds>>

\* group.RLock()
IncrementRL_RLock(p) ==
    WaitRLock(p, "IncrementRL_RLock", "IncrementRL_Read")

\* v, ok := group.items[key]
IncrementRL_Read(p) ==
    /\ proc[p].pc = "IncrementRL_Read"
    /\ LET s == getGroup(proc[p].key) IN
        proc' = [proc EXCEPT ![p].pc = "IncrementRL_Write",
                             ![p].v = Lookup(items[s], proc[p].key),
                             ![p].ok = Present(items[s], proc[p].key)]
    /\ UNCHANGED <<items, mu, now, ret, jan, calls, mgr, rds>>

\* a variant that adds n to the value the map holds when it stores
Mut_IncrementRL_Write_Rereads(p) ==
    /\ proc[p].pc = "IncrementRL_Write"
    /\ LET s == getGroup(proc[p].key)
           v == Lookup(items[s], proc[p].key)
           nv == v.value.v + proc[p].n
       IN
        /\ IF ~Present(items[s], proc[p].key)
           THEN /\ items' = [items EXCEPT ![s] =
                                 Store(@, proc[p].key,
                                       Item(IntV(proc[p].n), 0))]
                /\ mu' = RUnlocked(s, p)
                /\ Return(p, "Increment", IntV(proc[p].n), "nil")
           ELSE IF v.value.t # "int"
           THEN /\ items' = items
                /\ mu' = [mu EXCEPT ![s].r = (@ \ {p}) \cup {Leaked(p)}]
                /\ Return(p, "Increment", IntV(0), "invalid_type")
           ELSE /\ items' = [items EXCEPT ![s] =
                                 Store(@, proc[p].key,
                                       Item(IntV(nv), v.Expiration))]
                /\ mu' = RUnlocked(s, p)
                /\ Return(p, "Increment", IntV(nv), "nil")
    /\ UNCHANGED <<now, jan, calls, mgr, rds>>

\* the rest of the body: the store and RUnlock of the miss and of the
\* success path, the return without RUnlock of the type-mismatch path
IncrementRL_Write(p) ==
    /\ proc[p].pc = "IncrementRL_Write"
    /\ \/ LET s == getGroup(proc[p].key)
              v == proc[p].v
              nv == v.value.v + proc[p].n
          IN
           /\ IF ~proc[p].ok
              THEN /\ items' = [items EXCEPT ![s] =
                                    Store(@, proc[p].key,
                                          Item(IntV(proc[p].n), 0))]
                   /\ mu' = RUnlocked(s, p)
                   /\ Return(p, "Increment", IntV(proc[p].n), "nil")
              ELSE IF v.value.t # "int"
              THEN /\ items' = items
                   /\ mu' = [mu EXCEPT ![s].r = (@ \ {p}) \cup {Leaked(p)}]
                   /\ Return(p, "Increment", IntV(0), "invalid_type")
              ELSE /\ items' = [items EXCEPT ![s] =
                                    Store(@, proc[p].key,
                                          Item(IntV(nv), v.Expiration))]
                   /\ mu' = RUnlocked(s, p)
                   /\ Return(p, "Increment", IntV(nv), "nil")
           /\ UNCHANGED <<now, jan, calls, mgr, rds>>
       \/ /\ ~proc[p].ok \/ proc[p].v.value.t = "int"
          /\ Fatal(p)

DecrementRL(p, key, n) ==
    /\ Begin(p, [Idle EXCEPT !.pc = "DecrementRL_RLock", !.key = key,
                             !.n = n])
    /\ UNCHANGED <<items, mu, now, jan, mgr, rds>>

\* group.RLock()
DecrementRL_RLock(p) ==
    WaitRLock(p, "DecrementRL_RLock", "DecrementRL_Read")

\* v, ok := group.items[key]
DecrementRL_Read(p) ==
    /\ proc[p].pc = "DecrementRL_Read"
    /\ LET s == getGroup(proc[p].key) IN
        proc' = [proc EXCEPT ![p].pc = "DecrementRL_Write",
                             ![p].v = Lookup(items[s], proc[p].key),
                             ![p].ok = Present(items[s], proc[p].key)]
    /\ UNCHANGED <<items, mu, now, ret, jan, calls, mgr, rds>>

\* a variant that releases the read lock on the type-mismatch path too
Mut_DecrementRL_Write_Unlocks(p) ==
    /\ proc[p].pc = "DecrementRL_Write"
    /\ LET s == getGroup(proc[p].key)
           v == proc[p].v
           nv == v.value.v - proc[p].n
       IN
        /\ mu' = RUnlocked(s, p)
        /\ IF ~proc[p].ok
           THEN /\ items' = items
                /\ Return(p, "Decrement", IntV(proc[p].n), "undefined_key")
           ELSE IF v.value.t # "int"
           THEN /\ items' = items
                /\ Return(p, "Decrement", IntV(0), "invalid_type")
           ELSE /\ items' = [items EXCEPT ![s] = Store(@, proc[p].key,
                                                Item(IntV(nv), v.Expiration))]
                /\ Return(p, "Decrement", IntV(nv), "nil")
    /\ UNCHANGED <<now, jan, calls, mgr, rds>>

\* the rest of the body: RUnlock and error on a miss, the store and RUnlock
\* of the success path, the return without RUnlock of the type-mismatch path
DecrementRL_Write(p) ==
    /\ proc[p].pc = "DecrementRL_Write"
    /\ \/ LET s == getGroup(proc[p].key)
              v == proc[p].v
              nv == v.value.v - proc[p].n
          IN
           /\ IF ~proc[p].ok
              THEN /\ items' = items
                   /\ mu' = RUnlocked(s, p)
                   /\ Return(p, "Decrement", IntV(proc[p].n), "undefined_key")
              ELSE IF v.value.t # "int"
              THEN /\ items' = items
                   /\ mu' = [mu EXCEPT ![s].r = (@ \ {p}) \cup {Leaked(p)}]
                   /\ Return(p, "Decrement", IntV(0), "invalid_type")
              ELSE /\ items' = [items EXCEPT ![s] =
                                    Store(@, proc[p].key,
                                          Item(IntV(nv), v.Expiration))]
                   /\ mu' = RUnlocked(s, p)
                   /\ Return(p, "Decrement", IntV(nv), "nil")
           /\ UNCHANGED <<now, jan, calls, mgr, rds>>
       \/ /\ proc[p].ok
          /\ proc[p].v.value.t = "int"
          /\ Fatal(p)

\* ----------------------------------------------------------------- janitor
\* a run whose ticker goes on firing after the stop signal was received
Mut_Janitor_Tick_AfterStop(s) ==
    /\ jan[s].pc \in {"select", "stopped"}
    /\ jan' = [jan EXCEPT ![s] = [pc |-> "lock", now |-> now]]
    /\ UNCHANGED <<items, mu, now, proc, ret, calls, mgr, rds>>

\* case <-ticker.C: now := time.Now().UnixNano()
Janitor_Tick(s) ==
    /\ jan[s].pc = "select"
    /\ jan' = [jan EXCEPT ![s] = [pc |-> "lock", now |-> now]]
    /\ UNCHANGED <<items, mu, now, proc, ret, calls, mgr, rds>>

\* c.Lock()
Janitor_Lock(s) ==
    /\ jan[s].pc = "lock"
    /\ \/ /\ CanLock(s, JanitorId(s))
          /\ mu' = Locked(s, JanitorId(s))
          /\ jan' = [jan EXCEPT ![s].pc = "scan"]
       \/ /\ MustAnnounce(s, JanitorId(s))
          /\ mu' = Announced(s, JanitorId(s))
          /\ UNCHANGED jan
    /\ UNCHANGED <<items, now, proc, ret, calls, mgr, rds>>

\* a scan with the comparison the wrong way round
Mut_Expired_Reversed(it, t) == it.Expiration > 0 /\ t < it.Expiration

\* a scan that forgets that Expiration = 0 means "never"
Mut_Expired_NoZeroCheck(it, t) == t > it.Expiration

\* a scan that also deletes the items that expire at the sampled time
Mut_Expired_Inclusive(it, t) == it.Expiration > 0 /\ t >= it.Expiration

\* an item the scan deletes
Expired(it, t) == it.Expiration > 0 /\ t > it.Expiration

Swept(m, t) == [k \in {x \in DOMAIN m : ~Expired(m[x], t)} |-> m[k]]

\* the range loop over c.items, then c.Unlock()
Janitor_Scan(s) ==
    /\ jan[s].pc = "scan"
    /\ items' = [items EXCEPT ![s] = Swept(@, jan[s].now)]
    /\ mu' = Unlocked(s)
    /\ jan' = [jan EXCEPT ![s].pc = "select"]
    /\ UNCHANGED <<now, proc, ret, calls, mgr, rds>>

\* stopJanitor(c), the finalizer Init sets on every shard: the send
\* c.janitor.stop <- struct{}{} on the channel runJanitor made without a
\* buffer; the caller stays in the send until a receiver takes the value
stopJanitor(p, s) ==
    /\ Begin(p, [Idle EXCEPT !.pc = "stopJanitor_Send", !.i = s])
    /\ UNCHANGED <<items, mu, now, jan, mgr, rds>>

\* a caller blocked in the send on the stop channel of shard s
Sending(p, s) == proc[p].pc = "stopJanitor_Send" /\ proc[p].i = s

\* a stop channel with a buffer of one: the send returns when the janitor
\* is in its select, whether it takes the value or not
Mut_Janitor_Stop_Buffered(s) ==
    /\ jan[s].pc = "select"
    /\ \E p \in DOMAIN proc :
        /\ Sending(p, s)
        /\ Return(p, "stopJanitor", Nil, "nil")
    /\ \/ jan' = [jan EXCEPT ![s].pc = "stopped"]
       \/ UNCHANGED jan
    /\ UNCHANGED <<items, mu, now, calls, mgr, rds>>

\* case <-j.stop: ticker.Stop(); return. The janitor, in its select, takes
\* the value of one blocked sender, whose send and call return with that,
\* and ends: no statement of run is left to execute for shard s
Janitor_Stop(s) ==
    /\ jan[s].pc = "select"
    /\ \E p \in DOMAIN proc :
        /\ Sending(p, s)
        /\ Return(p, "stopJanitor", Nil, "nil")
    /\ jan' = [jan EXCEPT ![s].pc = "stopped"]
    /\ UNCHANGED <<items, mu, now, calls, mgr, rds>>

\* ----------------------------------------------------- garbage collection
\* the goroutine of the Go runtime that runs the finalizers
runfinq == NumProcs

\* the goroutines that got the Cache from Init
Holders == Procs \ {runfinq}

\* a goroutine that got the Cache from Init lets go of it: it makes no call
\* any more
Drop(p) ==
    /\ proc[p].pc = "idle"
    /\ proc' = [proc EXCEPT ![p].pc = "dropped"]
    /\ UNCHANGED <<items, mu, now, ret, jan, calls, mgr, rds>>

\* shard s is garbage: no Manager and no goroutine holds the Cache, and
\* the goroutine runJanitor started with `go j.run(c)`, whose argument c is
\* the shard itself, has returned
Unreachable(s) ==
    /\ mgr.Mem = "nil"
    /\ \A p \in Holders : proc[p].pc = "dropped"
    /\ jan[s].pc = "stopped"

\* runtime.SetFinalizer(c[i], stopJanitor): once the collector finds shard s
\* unreachable, the runtime calls stopJanitor(c[i]) on its finalizer
\* goroutine
Finalize(s) ==
    /\ Unreachable(s)
    /\ stopJanitor(runfinq, s)

\* ------------------------------------------------------------------- clock
Tick ==
    /\ now < MaxTime
    /\ now' = now + 1
    /\ UNCHANGED <<items, mu, proc, ret, jan, calls, mgr, rds>>

\* ----------------------------------------------------------- package redis
\* json.Marshal of the values the callers store, as the JSON token it
\* writes, and json.Unmarshal into an `any`, which yields a float64 for
\* every JSON number
Marshal(value) ==
    [j |-> CASE value.t = "nil" -> "null"
             [] value.t = "string" -> "string"
             [] value.t = "bool" -> "bool"
             [] OTHER -> "number",
     v |-> value.v]

Unmarshal(bytes) ==
    CASE bytes.j = "null" -> Nil
      [] bytes.j = "string" -> StrV(bytes.v)
      [] bytes.j = "bool" -> [t |-> "bool", v |-> bytes.v]
      [] OTHER -> [t |-> "float64", v |-> bytes.v]

\* the key a Cache sends to the server: c.prefix + key
RedisKey(key) == mgr.Redis.prefix \o key

\* a key of the server: its bytes and the time it expires at (0: never);
\* the server treats a key whose time has come as absent
RedisEntry(bytes, e) == [bytes |-> bytes, expireAt |-> e]
RedisLive(k) ==
    /\ k \in DOMAIN rds
    /\ rds[k].expireAt = 0 \/ now < rds[k].expireAt

\* c.redis.Set(c.prefix+key, value, seconds): the value is stored JSON
\* encoded, for `seconds` seconds or for good when seconds is 0
RedisSet(key, value, seconds) ==
    Store(rds, RedisKey(key),
          RedisEntry(Marshal(value), Expiry(now, seconds)))

\* INCRBY / DECRBY by d: an absent key counts from 0, a key that holds an
\* integer keeps its time to live, any other key is an error
RedisIncrBy(p, op, d) ==
    LET k == RedisKey(proc[p].key) IN
    IF ~RedisLive(k)
    THEN /\ rds' = Store(rds, k, RedisEntry(Marshal(IntV(d)), 0))
         /\ Return(p, op, IntV(d), "nil")
    ELSE IF rds[k].bytes.j # "number"
    THEN /\ rds' = rds
         /\ Return(p, op, IntV(0), "not_an_integer")
    ELSE /\ rds' = Store(rds, k, RedisEntry(Marshal(IntV(rds[k].bytes.v + d)),
                                            rds[k].expireAt))
         /\ Return(p, op, IntV(rds[k].bytes.v + d), "nil")

\* caller p calls a method of the *redis.Cache the Manager holds
RedisCall(p, frame) ==
    /\ ~mgr.Redis.nil
    /\ Begin(p, frame)
    /\ UNCHANGED <<items, mu, now, jan, mgr, rds>>

\* the positions of a call that is about to use c.redis
RedisPcs ==
    {"Redis_Put_Set", "Redis_Add_Exists", "Redis_Add_Set", "Redis_Get_Get",
     "Redis_Pull_Get", "Redis_Pull_Del", "Redis_Has_Exists",
     "Redis_Forever_Set", "Redis_Forget_Del", "Redis_Increment_Do",
     "Redis_Decrement_Do", "Redis_Flush_BatchDel"}

\* caller p is at pc and c.redis is a connection pool
AtServer(p, pc) ==
    /\ proc[p].pc = pc
    /\ mgr.Redis.redis = "pool"

\* c.redis is the nil manager (a Config without Address and no manager
\* given): using its connection pool is a nil dereference, the goroutine
\* panics and the program starts nothing more
Redis_Panic(p) ==
    /\ proc[p].pc \in RedisPcs
    /\ mgr.Redis.redis = "nil"
    /\ proc' = [proc EXCEPT ![p].pc = "panic"]
    /\ calls' = 0
    /\ UNCHANGED <<items, mu, now, ret, jan, mgr, rds>>

Redis_Put(p, key, value, seconds) ==
    RedisCall(p, [Idle EXCEPT !.pc = "Redis_Put_Set", !.key = key,
                              !.value = value, !.seconds = seconds])

\* return c.redis.Set(c.prefix+key, value, seconds)
Redis_Put_Set(p) ==
    /\ AtServer(p, "Redis_Put_Set")
    /\ rds' = RedisSet(proc[p].key, proc[p].value, proc[p].seconds)
    /\ Return(p, "Put", Nil, "nil")
    /\ UNCHANGED <<items, mu, now, jan, calls, mgr>>

Redis_Add(p, key, value, seconds) ==
    RedisCall(p, [Idle EXCEPT !.pc = "Redis_Add_Exists", !.key = key,
                              !.value = value, !.seconds = seconds])

\* if !c.Has(key) { ... }; return nil
Redis_Add_Exists(p) ==
    /\ AtServer(p, "Redis_Add_Exists")
    /\ IF RedisLive(RedisKey(proc[p].key))
       THEN Return(p, "Add", Nil, "nil")
       ELSE /\ proc' = [proc EXCEPT ![p].pc = "Redis_Add_Set"]
            /\ UNCHANGED ret
    /\ UNCHANGED <<items, mu, now, jan, calls, mgr, rds>>

\* return c.redis.Set(c.prefix+key, value, seconds)
Redis_Add_Set(p) ==
    /\ AtServer(p, "Redis_Add_Set")
    /\ rds' = RedisSet(proc[p].key, proc[p].value, proc[p].seconds)
    /\ Return(p, "Add", Nil, "nil")
    /\ UNCHANGED <<items, mu, now, jan, calls, mgr>>

Redis_Get(p, key) ==
    RedisCall(p, [Idle EXCEPT !.pc = "Redis_Get_Get", !.key = key])

\* bytes, err := c.redis.Get(c.prefix + key); json.Unmarshal(bytes, &value):
\* an absent key has no bytes to decode and the call returns (nil, err)
Redis_Get_Get(p) ==
    /\ AtServer(p, "Redis_Get_Get")
    /\ LET k == RedisKey(proc[p].key) IN
        IF RedisLive(k)
        THEN Return(p, "Get", Unmarshal(rds[k].bytes), "nil")
        ELSE Return(p, "Get", Nil, "no_bytes")
    /\ UNCHANGED <<items, mu, now, jan, calls, mgr, rds>>

Redis_Pull(p, key) ==
    RedisCall(p, [Idle EXCEPT !.pc = "Redis_Pull_Get", !.key = key])

\* value, err := c.Get(key); if err != nil { return nil, err }
Redis_Pull_Get(p) ==
    /\ AtServer(p, "Redis_Pull_Get")
    /\ LET k == RedisKey(proc[p].key) IN
        IF RedisLive(k)
        THEN /\ proc' = [proc EXCEPT ![p].pc = "Redis_Pull_Del",
                                     ![p].value = Unmarshal(rds[k].bytes)]
             /\ UNCHANGED ret
        ELSE Return(p, "Pull", Nil, "no_bytes")
    /\ UNCHANGED <<items, mu, now, jan, calls, mgr, rds>>

\* _, err = c.Forget(key); return value, nil
Redis_Pull_Del(p) ==
    /\ AtServer(p, "Redis_Pull_Del")
    /\ rds' = Delete(rds, RedisKey(proc[p].key))
    /\ Return(p, "Pull", proc[p].value, "nil")
    /\ UNCHANGED <<items, mu, now, jan, calls, mgr>>

Redis_Has(p, key) ==
    RedisCall(p, [Idle EXCEPT !.pc = "Redis_Has_Exists", !.key = key])

\* exists, _ := c.redis.Exists(c.prefix + key); return exists
Redis_Has_Exists(p) ==
    /\ AtServer(p, "Redis_Has_Exists")
    /\ Return(p, "Has", BoolV(RedisLive(RedisKey(proc[p].key))), "nil")
    /\ UNCHANGED <<items, mu, now, jan, calls, mgr, rds>>

Redis_Forever(p, key, value) ==
    RedisCall(p, [Idle EXCEPT !.pc = "Redis_Forever_Set", !.key = key,
                              !.value = value])

\* return c.redis.Set(c.prefix+key, value, 0)
Redis_Forever_Set(p) ==
    /\ AtServer(p, "Redis_Forever_Set")
    /\ rds' = RedisSet(proc[p].key, proc[p].value, 0)
    /\ Return(p, "Forever", Nil, "nil")
    /\ UNCHANGED <<items, mu, now, jan, calls, mgr>>

Redis_Forget(p, key) ==
    RedisCall(p, [Idle EXCEPT !.pc = "Redis_Forget_Del", !.key = key])

\* return c.redis.Del(c.prefix + key): whether DEL removed a key
Redis_Forget_Del(p) ==
    /\ AtServer(p, "Redis_Forget_Del")
    /\ rds' = Delete(rds, RedisKey(proc[p].key))
    /\ Return(p, "Forget", BoolV(RedisLive(RedisKey(proc[p].key))), "nil")
    /\ UNCHANGED <<items, mu, now, jan, calls, mgr>>

Redis_Increment(p, key, n) ==
    RedisCall(p, [Idle EXCEPT !.pc = "Redis_Increment_Do", !.key = key,
                              !.n = n])

\* return redigo.Int(conn.Do("INCRBY", c.prefix+key, n))
Redis_Increment_Do(p) ==
    /\ AtServer(p, "Redis_Increment_Do")
    /\ RedisIncrBy(p, "Increment", proc[p].n)
    /\ UNCHANGED <<items, mu, now, jan, calls, mgr>>

Redis_Decrement(p, key, n) ==
    RedisCall(p, [Idle EXCEPT !.pc = "Redis_Decrement_Do", !.key = key,
                              !.n = n])

\* return redigo.Int(conn.Do("DECRBY", c.prefix+key, n))
Redis_Decrement_Do(p) ==
    /\ AtServer(p, "Redis_Decrement_Do")
    /\ RedisIncrBy(p, "Decrement", 0 - proc[p].n)
    /\ UNCHANGED <<items, mu, now, jan, calls, mgr>>

HasPrefix(k, prefix) ==
    /\ Len(k) >= Len(prefix)
    /\ SubSeq(k, 1, Len(prefix)) = prefix

Redis_Flush(p) ==
    RedisCall(p, [Idle EXCEPT !.pc = "Redis_Flush_BatchDel"])

\* return c.redis.BatchDel(c.prefix): every key that starts with the prefix
Redis_Flush_BatchDel(p) ==
    /\ AtServer(p, "Redis_Flush_BatchDel")
    /\ rds' = [k \in {x \in DOMAIN rds : ~HasPrefix(x, mgr.Redis.prefix)}
                 |-> rds[k]]
    /\ Return(p, "Flush", Nil, "nil")
    /\ UNCHANGED <<items, mu, now, jan, calls, mgr>>

\* every step a call on the Redis backend takes after it has started
RedisStep(p) ==
    \/ Redis_Panic(p)
    \/ Redis_Put_Set(p)
    \/ Redis_Add_Exists(p)
    \/ Redis_Add_Set(p)
    \/ Redis_Get_Get(p)
    \/ Redis_Pull_Get(p)
    \/ Redis_Pull_Del(p)
    \/ Redis_Has_Exists(p)
    \/ Redis_Forever_Set(p)
    \/ Redis_Forget_Del(p)
    \/ Redis_Increment_Do(p)
    \/ Redis_Decrement_Do(p)
    \/ Redis_Flush_BatchDel(p)

\* ----------------------------------------------------------- cache.Manager
\* redis.Init: the manager given, or a new one when the Config has an address
redis_Init(prefix, redisConfig, redisManager) ==
    RedisHandle(IF redisConfig.Address # "" THEN "pool" ELSE redisManager,
                prefix)

\* cache.New that makes Redis the default whenever it has made it
Mut_New_RedisWhenMade(defaultDriver, redis, redisConfig) ==
    /\ mgr = NoManager
    /\ LET Redis == IF redis # "nil" \/ redisConfig # EmptyConfig
                    THEN redis_Init(DefaultPrefix, redisConfig, redis)
                    ELSE NilCache
       IN  mgr' = [Mem |-> "cache",
                   Redis |-> Redis,
                   defaultCache |-> IF ~Redis.nil THEN "Redis" ELSE "Mem"]
    /\ items' = [s \in Shards |-> EmptyMap]
    /\ mu' = [s \in Shards |-> [w |-> 0, pend |-> 0, r |-> {}]]
    /\ jan' = [s \in Shards |-> [pc |-> "select", now |-> 0]]
    /\ UNCHANGED <<now, proc, ret, calls, rds>>

\* cache.New(WithDefaultDriver(defaultDriver), WithRedis(redis),
\* WithRedisConfig(redisConfig)): Mem is always made, Redis only when a
\* manager or a Config other than the zero one is given, and the default is
\* Redis only for the driver "redis" with Redis made
New(defaultDriver, redis, redisConfig) ==
    /\ mgr = NoManager
    /\ LET Redis == IF redis # "nil" \/ redisConfig # EmptyConfig
                    THEN redis_Init(DefaultPrefix, redisConfig, redis)
                    ELSE NilCache
       IN  mgr' = [Mem |-> "cache",
                   Redis |-> Redis,
                   defaultCache |->
                       IF defaultDriver = RedisCache
                       THEN IF ~Redis.nil THEN "Redis" ELSE "Mem"
                       ELSE "Mem"]
    /\ items' = [s \in Shards |-> EmptyMap]
    /\ mu' = [s \in Shards |-> [w |-> 0, pend |-> 0, r |-> {}]]
    /\ jan' = [s \in Shards |-> [pc |-> "select", now |-> 0]]
    /\ UNCHANGED <<now, proc, ret, calls, rds>>

\* the methods of Manager: return m.defaultCache.<Method>(...)
Manager_Put(p, key, value, seconds) ==
    \/ mgr.defaultCache = "Mem" /\ Put(p, key, value, seconds)
    \/ mgr.defaultCache = "Redis" /\ Redis_Put(p, key, value, seconds)

Manager_Add(p, key, value, seconds) ==
    \/ mgr.defaultCache = "Mem" /\ Add(p, key, value, seconds)
    \/ mgr.defaultCache = "Redis" /\ Redis_Add(p, key, value, seconds)

Manager_Get(p, key) ==
    \/ mgr.defaultCache = "Mem" /\ Get(p, key)
    \/ mgr.defaultCache = "Redis" /\ Redis_Get(p, key)

Manager_Pull(p, key) ==
    \/ mgr.defaultCache = "Mem" /\ Pull(p, key)
    \/ mgr.defaultCache = "Redis" /\ Redis_Pull(p, key)

Manager_Has(p, key) ==
    \/ mgr.defaultCache = "Mem" /\ Has(p, key)
    \/ mgr.defaultCache = "Redis" /\ Redis_Has(p, key)

Manager_Forever(p, key, value) ==
    \/ mgr.defaultCache = "Mem" /\ Forever(p, key, value)
    \/ mgr.defaultCache = "Redis" /\ Redis_Forever(p, key, value)

Manager_Forget(p, key) ==
    \/ mgr.defaultCache = "Mem" /\ Forget(p, key)
    \/ mgr.defaultCache = "Redis" /\ Redis_Forget(p, key)

Manager_Increment(p, key, n) ==
    \/ mgr.defaultCache = "Mem" /\ Increment(p, key, n)
    \/ mgr.defaultCache = "Redis" /\ Redis_Increment(p, key, n)

Manager_Decrement(p, key, n) ==
    \/ mgr.defaultCache = "Mem" /\ Decrement(p, key, n)
    \/ mgr.defaultCache = "Redis" /\ Redis_Decrement(p, key, n)

Manager_Flush(p) ==
    \/ mgr.defaultCache = "Mem" /\ Flush(p)
    \/ mgr.defaultCache = "Redis" /\ Redis_Flush(p)

\* ---------------------------------------------------------- specifications
\* One caller goroutine running every public operation on Keys, the janitor
\* of their shard and the clock.
Caller == {1}

Next ==
    \/ \E p \in Caller, k \in Keys, v \in Values, s \in Ttls : Put(p, k, v, s)
    \/ \E p \in Caller : Put_Lock(p)
    \/ \E p \in Caller : Put_Store(p)
    \/ \E p \in Caller, k \in Keys, v \in Values, s \in Ttls : Add(p, k, v, s)
    \/ \E p \in Caller : Add_Lock(p)
    \/ \E p \in Caller : Add_Check(p)
    \/ \E p \in Caller : Add_Store(p)
    \/ \E p \in Caller, k \in Keys : Get(p, k)
    \/ \E p \in Caller : Get_RLock(p)
    \/ \E p \in Caller : Get_Read(p)
    \/ \E p \in Caller, k \in Keys : Has(p, k)
    \/ \E p \in Caller : Has_RLock(p)
    \/ \E p \in Caller : Has_Read(p)
    \/ \E p \in Caller, k \in Keys : Pull(p, k)
    \/ \E p \in Caller : Pull_RLock(p)
    \/ \E p \in Caller : Pull_Read(p)
    \/ \E p \in Caller : Pull_Lock(p)
    \/ \E p \in Caller : Pull_Delete(p)
    \/ \E p \in Caller, k \in Keys, v \in Values : Forever(p, k, v)
    \/ \E p \in Caller : Forever_Lock(p)
    \/ \E p \in Caller : Forever_Store(p)
    \/ \E p \in Caller, k \in Keys : Forget(p, k)
    \/ \E p \in Caller : Forget_Lock(p)
    \/ \E p \in Caller : Forget_Delete(p)
    \/ \E p \in Caller, k \in Keys, n \in Amounts : Increment(p, k, n)
    \/ \E p \in Caller : Increment_Lock(p)
    \/ \E p \in Caller : Increment_Read(p)
    \/ \E p \in Caller : Increment_Write(p)
    \/ \E p \in Caller, k \in Keys, n \in Amounts : Decrement(p, k, n)
    \/ \E p \in Caller : Decrement_Lock(p)
    \/ \E p \in Caller : Decrement_Read(p)
    \/ \E p \in Caller : Decrement_Write(p)
    \/ \E p \in Caller : Flush(p)
    \/ \E p \in Caller : Flush_Lock(p)
    \/ \E p \in Caller : Flush_Clear(p)
    \/ \E s \in SweptShards : Janitor_Tick(s)
    \/ \E s \in SweptShards : Janitor_Lock(s)
    \/ \E s \in SweptShards : Janitor_Scan(s)
    \/ Tick

Spec == Init /\ [][Next]_vars

\* NumProcs caller goroutines running Add and Get concurrently on one key,
\* the janitor of its shard and the clock.
NextAdd ==
    \/ \E p \in Procs, k \in HotKeys, v \in Values, s \in {0, MaxTtl} :
            Add(p, k, v, s)
    \/ \E p \in Procs : Add_Lock(p)
    \/ \E p \in Procs : Add_Check(p)
    \/ \E p \in Procs : Add_Store(p)
    \/ \E p \in Caller, k \in HotKeys : Get(p, k)
    \/ \E p \in Procs : Get_RLock(p)
    \/ \E p \in Procs : Get_Read(p)
    \/ \E s \in SweptShards : Janitor_Tick(s)
    \/ \E s \in SweptShards : Janitor_Lock(s)
    \/ \E s \in SweptShards : Janitor_Scan(s)
    \/ Tick

SpecAdd == InitConc /\ [][NextAdd]_vars

\* NumProcs caller goroutines running Increment and Decrement concurrently on
\* one key while the janitor of its shard sweeps; no entry ever expires here,
\* so the clock is left alone.
NextCounter ==
    \/ \E p \in Procs, k \in HotKeys, n \in Amounts : Increment(p, k, n)
    \/ \E p \in Procs : Increment_Lock(p)
    \/ \E p \in Procs : Increment_Read(p)
    \/ \E p \in Procs : Increment_Write(p)
    \/ \E p \in Procs, k \in HotKeys, n \in Amounts : Decrement(p, k, n)
    \/ \E p \in Procs : Decrement_Lock(p)
    \/ \E p \in Procs : Decrement_Read(p)
    \/ \E p \in Procs : Decrement_Write(p)
    \/ \E s \in SweptShards : Janitor_Tick(s)
    \/ \E s \in SweptShards : Janitor_Lock(s)
    \/ \E s \in SweptShards : Janitor_Scan(s)

SpecCounter == InitConc /\ [][NextCounter]_vars

\* One caller goroutine running Put, Get and Has on one key, the janitor of
\* its shard and the clock, under the scheduling the Go runtime gives: the
\* clock advances, the ticker keeps firing, and a goroutine that can take a
\* step (the janitor, or a caller inside a call) is eventually run.
NextLive ==
    \/ \E p \in Caller, k \in HotKeys, v \in Values, s \in Ttls : Put(p, k, v, s)
    \/ \E p \in Caller : Put_Lock(p)
    \/ \E p \in Caller : Put_Store(p)
    \/ \E p \in Caller, k \in HotKeys : Get(p, k)
    \/ \E p \in Caller : Get_RLock(p)
    \/ \E p \in Caller : Get_Read(p)
    \/ \E p \in Caller, k \in HotKeys : Has(p, k)
    \/ \E p \in Caller : Has_RLock(p)
    \/ \E p \in Caller : Has_Read(p)
    \/ \E s \in SweptShards : Janitor_Tick(s)
    \/ \E s \in SweptShards : Janitor_Lock(s)
    \/ \E s \in SweptShards : Janitor_Scan(s)
    \/ Tick

\* the steps inside a call of the caller
InCall ==
    \E p \in Caller :
        \/ Put_Lock(p) \/ Put_Store(p)
        \/ Get_RLock(p) \/ Get_Read(p)
        \/ Has_RLock(p) \/ Has_Read(p)

SpecLive ==
    /\ Init
    /\ [][NextLive]_vars
    /\ WF_vars(Tick)
    /\ WF_vars(InCall)
    /\ \A s \in SweptShards :
            /\ WF_vars(Janitor_Tick(s))
            /\ WF_vars(Janitor_Lock(s))
            /\ WF_vars(Janitor_Scan(s))

\* One caller goroutine that also stores nil values: every operation that
\* C11..C13, C18 and C19 are about, on Keys, with the janitor of their shard
\* and the clock.
NextNil ==
    \/ \E p \in Caller, k \in Keys, v \in NilValues, s \in {0, MaxTtl} :
            Put(p, k, v, s)
    \/ \E p \in Caller : Put_Lock(p)
    \/ \E p \in Caller : Put_Store(p)
    \/ \E p \in Caller, k \in Keys, v \in NilValues, s \in {0, MaxTtl} :
            Add(p, k, v, s)
    \/ \E p \in Caller : Add_Lock(p)
    \/ \E p \in Caller : Add_Check(p)
    \/ \E p \in Caller : Add_Store(p)
    \/ \E p \in Caller, k \in Keys : Get(p, k)
    \/ \E p \in Caller : Get_RLock(p)
    \/ \E p \in Caller : Get_Read(p)
    \/ \E p \in Caller, k \in Keys : Has(p, k)
    \/ \E p \in Caller : Has_RLock(p)
    \/ \E p \in Caller : Has_Read(p)
    \/ \E p \in Caller, k \in Keys : Pull(p, k)
    \/ \E p \in Caller : Pull_RLock(p)
    \/ \E p \in Caller : Pull_Read(p)
    \/ \E p \in Caller : Pull_Lock(p)
    \/ \E p \in Caller : Pull_Delete(p)
    \/ \E p \in Caller, k \in Keys, v \in NilValues : Forever(p, k, v)
    \/ \E p \in Caller : Forever_Lock(p)
    \/ \E p \in Caller : Forever_Store(p)
    \/ \E p \in Caller, k \in Keys : Forget(p, k)
    \/ \E p \in Caller : Forget_Lock(p)
    \/ \E p \in Caller : Forget_Delete(p)
    \/ \E p \in Caller, k \in Keys : Increment(p, k, 1)
    \/ \E p \in Caller : Increment_Lock(p)
    \/ \E p \in Caller : Increment_Read(p)
    \/ \E p \in Caller : Increment_Write(p)
    \/ \E p \in Caller : Flush(p)
    \/ \E p \in Caller : Flush_Lock(p)
    \/ \E p \in Caller : Flush_Clear(p)
    \/ \E s \in SweptShards : Janitor_Tick(s)
    \/ \E s \in SweptShards : Janitor_Lock(s)
    \/ \E s \in SweptShards : Janitor_Scan(s)
    \/ Tick

SpecNil == Init /\ [][NextNil]_vars

\* One caller goroutine that fills keys of two shards, flushes and reads,
\* with the clock and the janitor of the shard of "a" sweeping; the janitor
\* of the shard of "b" stays in its select.
NextFlush ==
    \/ \E p \in Caller, k \in FlushKeys, v \in Values, s \in {0, MaxTtl} :
            Put(p, k, v, s)
    \/ \E p \in Caller : Put_Lock(p)
    \/ \E p \in Caller : Put_Store(p)
    \/ \E p \in Caller, k \in FlushKeys : Get(p, k)
    \/ \E p \in Caller : Get_RLock(p)
    \/ \E p \in Caller : Get_Read(p)
    \/ \E p \in Caller, k \in FlushKeys : Has(p, k)
    \/ \E p \in Caller : Has_RLock(p)
    \/ \E p \in Caller : Has_Read(p)
    \/ \E p \in Caller : Flush(p)
    \/ \E p \in Caller : Flush_Lock(p)
    \/ \E p \in Caller : Flush_Clear(p)
    \/ \E s \in SweptShards : Janitor_Tick(s)
    \/ \E s \in SweptShards : Janitor_Lock(s)
    \/ \E s \in SweptShards : Janitor_Scan(s)
    \/ Tick

SpecFlush == InitFlush /\ [][NextFlush]_vars

\* NumProcs caller goroutines, each putting the key that is its own with a
\* value that is its own, and all reading all those keys, while the janitor
\* sweeps; the clock stands still, so that no TTL elapses.
NextPut ==
    \/ \E p \in Procs, s \in {0, MaxTtl} : Put(p, WriterKey(p), IntV(p), s)
    \/ \E p \in Procs : Put_Lock(p)
    \/ \E p \in Procs : Put_Store(p)
    \/ \E p \in Procs, k \in WriterKeys : Get(p, k)
    \/ \E p \in Procs : Get_RLock(p)
    \/ \E p \in Procs : Get_Read(p)
    \/ \E s \in SweptShards : Janitor_Tick(s)
    \/ \E s \in SweptShards : Janitor_Lock(s)
    \/ \E s \in SweptShards : Janitor_Scan(s)

SpecPut == InitConc /\ [][NextPut]_vars

\* Two caller goroutines running every public operation concurrently on one
\* key (Flush is called by the first of them) while the janitor of the
\* key's shard sweeps, under the scheduling Go
\* gives: a goroutine that can run is run, the ticker keeps firing, and a
\* goroutine blocked in Lock or RLock gets the lock after finitely many
\* releases (sync.Mutex hands the lock to a starving waiter, and a waiting
\* writer keeps new readers out), which is strong fairness of its steps.
Pair == {1, NumProcs}

NextTerm ==
    \/ \E p \in Pair, k \in HotKeys : Put(p, k, StrV(1), 0)
    \/ \E p \in Pair : Put_Lock(p)
    \/ \E p \in Pair : Put_Store(p)
    \/ \E p \in Pair, k \in HotKeys : Add(p, k, StrV(1), 0)
    \/ \E p \in Pair : Add_Lock(p)
    \/ \E p \in Pair : Add_Check(p)
    \/ \E p \in Pair : Add_Store(p)
    \/ \E p \in Pair, k \in HotKeys : Get(p, k)
    \/ \E p \in Pair : Get_RLock(p)
    \/ \E p \in Pair : Get_Read(p)
    \/ \E p \in Pair, k \in HotKeys : Has(p, k)
    \/ \E p \in Pair : Has_RLock(p)
    \/ \E p \in Pair : Has_Read(p)
    \/ \E p \in Pair, k \in HotKeys : Pull(p, k)
    \/ \E p \in Pair : Pull_RLock(p)
    \/ \E p \in Pair : Pull_Read(p)
    \/ \E p \in Pair : Pull_Lock(p)
    \/ \E p \in Pair : Pull_Delete(p)
    \/ \E p \in Pair, k \in HotKeys : Forever(p, k, StrV(1))
    \/ \E p \in Pair : Forever_Lock(p)
    \/ \E p \in Pair : Forever_Store(p)
    \/ \E p \in Pair, k \in HotKeys : Forget(p, k)
    \/ \E p \in Pair : Forget_Lock(p)
    \/ \E p \in Pair : Forget_Delete(p)
    \/ \E p \in Pair, k \in HotKeys : Increment(p, k, 1)
    \/ \E p \in Pair : Increment_Lock(p)
    \/ \E p \in Pair : Increment_Read(p)
    \/ \E p \in Pair : Increment_Write(p)
    \/ \E p \in Pair, k \in HotKeys : Decrement(p, k, 1)
    \/ \E p \in Pair : Decrement_Lock(p)
    \/ \E p \in Pair : Decrement_Read(p)
    \/ \E p \in Pair : Decrement_Write(p)
    \/ \E p \in Caller : Flush(p)
    \/ \E p \in Pair : Flush_Lock(p)
    \/ \E p \in Pair : Flush_Clear(p)
    \/ \E s \in SweptShards : Janitor_Tick(s)
    \/ \E s \in SweptShards : Janitor_Lock(s)
    \/ \E s \in SweptShards : Janitor_Scan(s)

\* the steps inside a call of caller p
Step(p) ==
    \/ Put_Lock(p)
    \/ Put_Store(p)
    \/ Add_Lock(p)
    \/ Add_Check(p)
    \/ Add_Store(p)
    \/ Get_RLock(p)
    \/ Get_Read(p)
    \/ Has_RLock(p)
    \/ Has_Read(p)
    \/ Pull_RLock(p)
    \/ Pull_Read(p)
    \/ Pull_Lock(p)
    \/ Pull_Delete(p)
    \/ Forever_Lock(p)
    \/ Forever_Store(p)
    \/ Forget_Lock(p)
    \/ Forget_Delete(p)
    \/ Increment_Lock(p)
    \/ Increment_Read(p)
    \/ Increment_Write(p)
    \/ Decrement_Lock(p)
    \/ Decrement_Read(p)
    \/ Decrement_Write(p)
    \/ Flush_Lock(p)
    \/ Flush_Clear(p)

\* the steps of the janitor of shard s
JanitorStep(s) == Janitor_Tick(s) \/ Janitor_Lock(s) \/ Janitor_Scan(s)

SpecTerm ==
    /\ Init
    /\ [][NextTerm]_vars
    /\ \A p \in Pair : SF_vars(Step(p))
    /\ \A s \in SweptShards : SF_vars(JanitorStep(s))

\* NumProcs caller goroutines that compute the shard of keys, c.getGroup(key)
\* as every operation does first, at different times and over different
\* cache contents: some of them put a key, and the clock advances.
\* a uint32 as a value a caller gets back
Uint32V(h) == [t |-> "uint32", v |-> h]

\* caller p computes fnv32(key)
Hash(p, key) ==
    /\ proc[p].pc = "idle"
    /\ calls > 0
    /\ calls' = calls - 1
    /\ ret' = [ret EXCEPT ![p] = [op |-> "fnv32", key |-> key,
                                  val |-> Uint32V(fnv32(key)), err |-> "nil"]]
    /\ UNCHANGED <<items, mu, now, proc, jan, mgr, rds>>

Route(p, key) ==
    /\ proc[p].pc = "idle"
    /\ calls > 0
    /\ calls' = calls - 1
    /\ ret' = [ret EXCEPT ![p] = [op |-> "getGroup", key |-> key,
                                  val |-> IntV(getGroup(key)), err |-> "nil"]]
    /\ UNCHANGED <<items, mu, now, proc, jan, mgr, rds>>

NextRoute ==
    \/ \E p \in Procs, k \in RouteKeys : Route(p, k)
    \/ \E p \in Procs, k \in HotKeys : Put(p, k, StrV(1), 0)
    \/ \E p \in Procs : Put_Lock(p)
    \/ \E p \in Procs : Put_Store(p)
    \/ Tick

SpecRoute == InitFlush /\ [][NextRoute]_vars

\* A program that builds a Manager with cache.New and then uses it: one
\* goroutine calls the methods of the Manager, another one puts and forgets
\* keys through the handles m.Mem and m.Redis; the clock runs.
Direct == {NumProcs}

NextManager ==
    \/ \E d \in Drivers, r \in RedisManagers, c \in Configs : New(d, r, c)
    \/ \E p \in Caller, k \in HotKeys, v \in Values, s \in {0, MaxTtl} :
            Manager_Put(p, k, v, s)
    \/ \E p \in Caller, k \in HotKeys, v \in Values, s \in {0, MaxTtl} :
            Manager_Add(p, k, v, s)
    \/ \E p \in Caller, k \in HotKeys : Manager_Get(p, k)
    \/ \E p \in Caller, k \in HotKeys : Manager_Pull(p, k)
    \/ \E p \in Caller, k \in HotKeys : Manager_Has(p, k)
    \/ \E p \in Caller, k \in HotKeys, v \in Values : Manager_Forever(p, k, v)
    \/ \E p \in Caller, k \in HotKeys : Manager_Forget(p, k)
    \/ \E p \in Caller, k \in HotKeys : Manager_Increment(p, k, 1)
    \/ \E p \in Caller, k \in HotKeys : Manager_Decrement(p, k, 1)
    \/ \E p \in Caller : Manager_Flush(p)
    \/ \E p \in Direct, k \in HotKeys :
            mgr.Mem = "cache" /\ Put(p, k, IntV(MaxN), 0)
    \/ \E p \in Direct, k \in HotKeys : mgr.Mem = "cache" /\ Forget(p, k)
    \/ \E p \in Direct, k \in HotKeys : Redis_Put(p, k, IntV(MaxN), 0)
    \/ \E p \in Direct, k \in HotKeys : Redis_Forget(p, k)
    \/ \E p \in Procs : Step(p)
    \/ \E p \in Procs : RedisStep(p)
    \/ Tick

SpecManager == Init /\ [][NextManager]_vars

\* The two backends side by side, from empty stores: a Manager built with a
\* connection pool, one goroutine that counts on keys through m.Mem and
\* another that makes the same calls through m.Redis.
NextSide ==
    \/ New(MemCache, "pool", EmptyConfig)
    \/ \E p \in Caller, k \in HotKeys, n \in {1, MaxN} :
            mgr.Mem = "cache" /\ Decrement(p, k, n)
    \/ \E p \in Caller, k \in HotKeys, n \in {1, MaxN} :
            mgr.Mem = "cache" /\ Increment(p, k, n)
    \/ \E p \in Caller, k \in HotKeys : mgr.Mem = "cache" /\ Has(p, k)
    \/ \E p \in Caller, k \in HotKeys : mgr.Mem = "cache" /\ Forget(p, k)
    \/ \E p \in Direct, k \in HotKeys, n \in {1, MaxN} :
            Redis_Decrement(p, k, n)
    \/ \E p \in Direct, k \in HotKeys, n \in {1, MaxN} :
            Redis_Increment(p, k, n)
    \/ \E p \in Direct, k \in HotKeys : Redis_Has(p, k)
    \/ \E p \in Direct, k \in HotKeys : Redis_Forget(p, k)
    \/ \E p \in Caller : Decrement_Lock(p)
    \/ \E p \in Caller : Decrement_Read(p)
    \/ \E p \in Caller : Decrement_Write(p)
    \/ \E p \in Caller : Increment_Lock(p)
    \/ \E p \in Caller : Increment_Read(p)
    \/ \E p \in Caller : Increment_Write(p)
    \/ \E p \in Caller : Has_RLock(p)
    \/ \E p \in Caller : Has_Read(p)
    \/ \E p \in Caller : Forget_Lock(p)
    \/ \E p \in Caller : Forget_Delete(p)
    \/ \E p \in Direct : Redis_Decrement_Do(p)
    \/ \E p \in Direct : Redis_Increment_Do(p)
    \/ \E p \in Direct : Redis_Has_Exists(p)
    \/ \E p \in Direct : Redis_Forget_Del(p)

SpecSide == InitConc /\ [][NextSide]_vars

\* NumProcs caller goroutines that put and pull one key concurrently; the
\* value a caller puts is its own number, so that a value tells who put it.
NextPull ==
    \/ \E p \in Procs, k \in HotKeys : Put(p, k, IntV(p), 0)
    \/ \E p \in Procs : Put_Lock(p)
    \/ \E p \in Procs : Put_Store(p)
    \/ \E p \in Procs, k \in HotKeys : Pull(p, k)
    \/ \E p \in Procs : Pull_RLock(p)
    \/ \E p \in Procs : Pull_Read(p)
    \/ \E p \in Procs : Pull_Lock(p)
    \/ \E p \in Procs : Pull_Delete(p)

SpecPull == InitConc /\ [][NextPull]_vars

\* NumProcs caller goroutines that put and get "a" and "b", keys of two
\* shards, while the first of them also calls Flush.
NextFlushConc ==
    \/ \E p \in Procs, k \in FlushKeys : Put(p, k, IntV(p), 0)
    \/ \E p \in Procs : Put_Lock(p)
    \/ \E p \in Procs : Put_Store(p)
    \/ \E p \in Procs, k \in FlushKeys : Get(p, k)
    \/ \E p \in Procs : Get_RLock(p)
    \/ \E p \in Procs : Get_Read(p)
    \/ \E p \in Caller : Flush(p)
    \/ \E p \in Caller : Flush_Lock(p)
    \/ \E p \in Caller : Flush_Clear(p)

SpecFlushConc == InitConc /\ [][NextFlushConc]_vars

\* NumProcs caller goroutines running the read-lock variant of Increment
\* and Decrement concurrently on one key, and a reader.
NextRL ==
    \/ \E p \in Procs, k \in HotKeys : IncrementRL(p, k, 1)
    \/ \E p \in Procs : IncrementRL_RLock(p)
    \/ \E p \in Procs : IncrementRL_Read(p)
    \/ \E p \in Procs : IncrementRL_Write(p)
    \/ \E p \in Procs, k \in HotKeys : DecrementRL(p, k, 1)
    \/ \E p \in Procs : DecrementRL_RLock(p)
    \/ \E p \in Procs : DecrementRL_Read(p)
    \/ \E p \in Procs : DecrementRL_Write(p)
    \/ \E p \in Caller, k \in HotKeys : Get(p, k)
    \/ \E p \in Caller : Get_RLock(p)
    \/ \E p \in Caller : Get_Read(p)

SpecRL == InitConc /\ [][NextRL]_vars

\* NumProcs caller goroutines that run the read-lock variant of the counters
\* on one key that may hold a string, next to Put and Get of that key; the
\* first of them also calls Add, Forever, Forget and Has; the janitor of
\* the key's shard keeps ticking.
NextLeak ==
    \/ \E p \in Procs, k \in HotKeys, v \in Values : Put(p, k, v, 0)
    \/ \E p \in Procs : Put_Lock(p)
    \/ \E p \in Procs : Put_Store(p)
    \/ \E p \in Caller, k \in HotKeys : Add(p, k, IntV(1), 0)
    \/ \E p \in Caller : Add_Lock(p)
    \/ \E p \in Caller : Add_Check(p)
    \/ \E p \in Caller : Add_Store(p)
    \/ \E p \in Caller, k \in HotKeys : Forever(p, k, StrV(1))
    \/ \E p \in Caller : Forever_Lock(p)
    \/ \E p \in Caller : Forever_Store(p)
    \/ \E p \in Caller, k \in HotKeys : Forget(p, k)
    \/ \E p \in Caller : Forget_Lock(p)
    \/ \E p \in Caller : Forget_Delete(p)
    \/ \E p \in Procs, k \in HotKeys : Get(p, k)
    \/ \E p \in Procs : Get_RLock(p)
    \/ \E p \in Procs : Get_Read(p)
    \/ \E p \in Caller, k \in HotKeys : Has(p, k)
    \/ \E p \in Caller : Has_RLock(p)
    \/ \E p \in Caller : Has_Read(p)
    \/ \E p \in Procs, k \in HotKeys : IncrementRL(p, k, 1)
    \/ \E p \in Procs : IncrementRL_RLock(p)
    \/ \E p \in Procs : IncrementRL_Read(p)
    \/ \E p \in Procs : IncrementRL_Write(p)
    \/ \E p \in Procs, k \in HotKeys : DecrementRL(p, k, 1)
    \/ \E p \in Procs : DecrementRL_RLock(p)
    \/ \E p \in Procs : DecrementRL_Read(p)
    \/ \E p \in Procs : DecrementRL_Write(p)
    \/ \E s \in SweptShards : Janitor_Tick(s)
    \/ \E s \in SweptShards : Janitor_Lock(s)
    \/ \E s \in SweptShards : Janitor_Scan(s)

SpecLeak == InitConc /\ [][NextLeak]_vars

\* Two goroutines calling stopJanitor on the shard of "a" while the first
\* of them also calls Put with every time to live, Forever, Increment, Has,
\* Forget and Flush, with the clock and the janitor of that shard.
StopShards == {getGroup(k) : k \in HotKeys}

NextStop ==
    \/ \E p \in Procs, s \in StopShards : stopJanitor(p, s)
    \/ \E p \in Caller, k \in HotKeys, sec \in 0..MaxTtl :
            Put(p, k, IntV(1), sec)
    \/ \E p \in Caller : Put_Lock(p)
    \/ \E p \in Caller : Put_Store(p)
    \/ \E p \in Caller, k \in HotKeys : Forever(p, k, IntV(1))
    \/ \E p \in Caller : Forever_Lock(p)
    \/ \E p \in Caller : Forever_Store(p)
    \/ \E p \in Caller, k \in HotKeys : Increment(p, k, 1)
    \/ \E p \in Caller : Increment_Lock(p)
    \/ \E p \in Caller : Increment_Read(p)
    \/ \E p \in Caller : Increment_Write(p)
    \/ \E p \in Caller, k \in HotKeys : Has(p, k)
    \/ \E p \in Caller : Has_RLock(p)
    \/ \E p \in Caller : Has_Read(p)
    \/ \E p \in Caller, k \in HotKeys : Forget(p, k)
    \/ \E p \in Caller : Forget_Lock(p)
    \/ \E p \in Caller : Forget_Delete(p)
    \/ \E p \in Caller : Flush(p)
    \/ \E p \in Caller : Flush_Lock(p)
    \/ \E p \in Caller : Flush_Clear(p)
    \/ \E s \in StopShards : Janitor_Tick(s)
    \/ \E s \in StopShards : Janitor_Lock(s)
    \/ \E s \in StopShards : Janitor_Scan(s)
    \/ \E s \in StopShards : Janitor_Stop(s)
    \/ Tick

SpecStop == InitConc /\ [][NextStop]_vars

\* Two goroutines calling stopJanitor on the shard of "a" while the first
\* of them also calls Put, with the janitor of that shard sweeping. A caller
\* inside Put and the janitor are eventually run, and a janitor whose select
\* finds a sender again and again eventually takes its value.
PutStep(p) == Put_Lock(p) \/ Put_Store(p)

NextHandOff ==
    \/ \E p \in Procs, s \in StopShards : stopJanitor(p, s)
    \/ \E p \in Caller, k \in HotKeys : Put(p, k, IntV(1), 0)
    \/ \E p \in Caller : Put_Lock(p)
    \/ \E p \in Caller : Put_Store(p)
    \/ \E s \in StopShards : Janitor_Tick(s)
    \/ \E s \in StopShards : Janitor_Lock(s)
    \/ \E s \in StopShards : Janitor_Scan(s)
    \/ \E s \in StopShards : Janitor_Stop(s)

SpecHandOff ==
    /\ InitConc
    /\ [][NextHandOff]_vars
    /\ \A p \in Caller : SF_vars(PutStep(p))
    /\ \A s \in StopShards : SF_vars(JanitorStep(s))
    /\ \A s \in StopShards : SF_vars(Janitor_Stop(s))

\* One goroutine that holds the Cache, calls Put on "a", may stop the
\* janitor of the shard of "a" itself and then lets go of the Cache; the
\* janitor of that shard and the clock; and the runtime running the
\* finalizer of the shard once it is garbage. Every goroutine is eventually run, a janitor whose
\* select finds a sender again and again takes its value, and the finalizer
\* of a shard that is garbage is eventually called.
NextGC ==
    \/ \E p \in Holders, k \in HotKeys : Put(p, k, IntV(1), 0)
    \/ \E p \in Holders : Put_Lock(p)
    \/ \E p \in Holders : Put_Store(p)
    \/ \E p \in Holders, s \in StopShards : stopJanitor(p, s)
    \/ \E p \in Holders : Drop(p)
    \/ \E s \in StopShards : Finalize(s)
    \/ \E s \in StopShards : Janitor_Tick(s)
    \/ \E s \in StopShards : Janitor_Lock(s)
    \/ \E s \in StopShards : Janitor_Scan(s)
    \/ \E s \in StopShards : Janitor_Stop(s)
    \/ Tick

SpecGC ==
    /\ InitConc
    /\ [][NextGC]_vars
    /\ \A p \in Holders : SF_vars(PutStep(p))
    /\ \A s \in StopShards : SF_vars(JanitorStep(s))
    /\ \A s \in StopShards : SF_vars(Janitor_Stop(s))
    /\ \A s \in StopShards : WF_vars(Finalize(s))

\* One goroutine calling Put with every value and time to live, Increment
\* and Decrement on "a", with the clock and the janitor of the shard of "a".
NextStale ==
    \/ \E p \in Caller, k \in HotKeys, v \in Values, sec \in 0..MaxTtl :
            Put(p, k, v, sec)
    \/ \E p \in Caller : Put_Lock(p)
    \/ \E p \in Caller : Put_Store(p)
    \/ \E p \in Caller, k \in HotKeys, n \in Amounts : Increment(p, k, n)
    \/ \E p \in Caller : Increment_Lock(p)
    \/ \E p \in Caller : Increment_Read(p)
    \/ \E p \in Caller : Increment_Write(p)
    \/ \E p \in Caller, k \in HotKeys, n \in Amounts : Decrement(p, k, n)
    \/ \E p \in Caller : Decrement_Lock(p)
    \/ \E p \in Caller : Decrement_Read(p)
    \/ \E p \in Caller : Decrement_Write(p)
    \/ \E s \in StopShards : Janitor_Tick(s)
    \/ \E s \in StopShards : Janitor_Lock(s)
    \/ \E s \in StopShards : Janitor_Scan(s)
    \/ Tick

SpecStale == InitConc /\ [][NextStale]_vars

\* One goroutine calling Put on "a" with a time to live and Add on "a"
\* with a time to live that does not end before the clock does, a second
\* one calling Has on "a", with the clock and the janitor of the shard of
\* "a". Nobody calls Forget, Pull or Flush, and no Put follows an Add that
\* has returned last in its goroutine.
NextLost ==
    \/ \E p \in Caller, k \in HotKeys, sec \in 1..MaxTtl :
            Put(p, k, StrV(1), sec)
    \/ \E p \in Caller : Put_Lock(p)
    \/ \E p \in Caller : Put_Store(p)
    \/ \E p \in Caller, k \in HotKeys : Add(p, k, IntV(1), MaxTime)
    \/ \E p \in Caller : Add_Lock(p)
    \/ \E p \in Caller : Add_Check(p)
    \/ \E p \in Caller : Add_Store(p)
    \/ \E p \in Direct, k \in HotKeys : Has(p, k)
    \/ \E p \in Direct : Has_RLock(p)
    \/ \E p \in Direct : Has_Read(p)
    \/ \E s \in StopShards : Janitor_Tick(s)
    \/ \E s \in StopShards : Janitor_Lock(s)
    \/ \E s \in StopShards : Janitor_Scan(s)
    \/ Tick

SpecLost == InitConc /\ [][NextLost]_vars

\* One goroutine that calls Put on "a", "A" (same shard as "a") and "b"
\* (another shard), every other public operation on "a", and Flush; with the
\* clock and the janitor of the shard of "a".
OwnKeys == Keys \cup FlushKeys

NextOwn ==
    \/ \E p \in Caller, k \in OwnKeys, sec \in {0, MaxTtl} :
            Put(p, k, IntV(1), sec)
    \/ \E p \in Caller : Put_Lock(p)
    \/ \E p \in Caller : Put_Store(p)
    \/ \E p \in Caller, k \in HotKeys : Add(p, k, IntV(1), MaxTtl)
    \/ \E p \in Caller : Add_Lock(p)
    \/ \E p \in Caller : Add_Check(p)
    \/ \E p \in Caller : Add_Store(p)
    \/ \E p \in Caller, k \in HotKeys : Get(p, k)
    \/ \E p \in Caller : Get_RLock(p)
    \/ \E p \in Caller : Get_Read(p)
    \/ \E p \in Caller, k \in HotKeys : Has(p, k)
    \/ \E p \in Caller : Has_RLock(p)
    \/ \E p \in Caller : Has_Read(p)
    \/ \E p \in Caller, k \in HotKeys : Pull(p, k)
    \/ \E p \in Caller : Pull_RLock(p)
    \/ \E p \in Caller : Pull_Read(p)
    \/ \E p \in Caller : Pull_Lock(p)
    \/ \E p \in Caller : Pull_Delete(p)
    \/ \E p \in Caller, k \in HotKeys : Forever(p, k, StrV(1))
    \/ \E p \in Caller : Forever_Lock(p)
    \/ \E p \in Caller : Forever_Store(p)
    \/ \E p \in Caller, k \in HotKeys : Forget(p, k)
    \/ \E p \in Caller : Forget_Lock(p)
    \/ \E p \in Caller : Forget_Delete(p)
    \/ \E p \in Caller, k \in HotKeys : Increment(p, k, 1)
    \/ \E p \in Caller : Increment_Lock(p)
    \/ \E p \in Caller : Increment_Read(p)
    \/ \E p \in Caller : Increment_Write(p)
    \/ \E p \in Caller, k \in HotKeys : Decrement(p, k, 1)
    \/ \E p \in Caller : Decrement_Lock(p)
    \/ \E p \in Caller : Decrement_Read(p)
    \/ \E p \in Caller : Decrement_Write(p)
    \/ \E p \in Caller : Flush(p)
    \/ \E p \in Caller : Flush_Lock(p)
    \/ \E p \in Caller : Flush_Clear(p)
    \/ \E s \in StopShards : Janitor_Tick(s)
    \/ \E s \in StopShards : Janitor_Lock(s)
    \/ \E s \in StopShards : Janitor_Scan(s)
    \/ Tick

SpecOwn == InitConc /\ [][NextOwn]_vars

\* One goroutine calling Put and Add on "a" with a negative, a zero and a
\* positive number of seconds, the value stored being that number, and
\* Forget; with the clock and the janitor of the shard of "a".
NextTtl ==
    \/ \E p \in Caller, k \in HotKeys, sec \in Ttls : Put(p, k, IntV(sec), sec)
    \/ \E p \in Caller : Put_Lock(p)
    \/ \E p \in Caller : Put_Store(p)
    \/ \E p \in Caller, k \in HotKeys, sec \in Ttls : Add(p, k, IntV(sec), sec)
    \/ \E p \in Caller : Add_Lock(p)
    \/ \E p \in Caller : Add_Check(p)
    \/ \E p \in Caller : Add_Store(p)
    \/ \E p \in Caller, k \in HotKeys : Forget(p, k)
    \/ \E p \in Caller : Forget_Lock(p)
    \/ \E p \in Caller : Forget_Delete(p)
    \/ \E s \in StopShards : Janitor_Tick(s)
    \/ \E s \in StopShards : Janitor_Lock(s)
    \/ \E s \in StopShards : Janitor_Scan(s)
    \/ Tick

SpecTtl == InitConc /\ [][NextTtl]_vars

\* A Manager with a Redis pool, and every goroutine calling Add through
\* m.Redis on "a", each with a value that is its own, with and without a
\* time to live; the first of them also calls Has and Forget; with the
\* clock, by which the server expires keys.
NextRedisAdd ==
    \/ New(MemCache, "pool", EmptyConfig)
    \/ \E p \in Procs, k \in HotKeys, sec \in {0, MaxTtl} :
            Redis_Add(p, k, IntV(p), sec)
    \/ \E p \in Procs : Redis_Add_Exists(p)
    \/ \E p \in Procs : Redis_Add_Set(p)
    \/ \E p \in Caller, k \in HotKeys : Redis_Has(p, k)
    \/ \E p \in Caller : Redis_Has_Exists(p)
    \/ \E p \in Caller, k \in HotKeys : Redis_Forget(p, k)
    \/ \E p \in Caller : Redis_Forget_Del(p)
    \/ Tick

SpecRedisAdd == InitConc /\ [][NextRedisAdd]_vars

\* Goroutines computing the hash and the shard index of every string of at
\* most MaxKeyLen bytes out of "a" and 0xFF.
NextHash ==
    \/ \E p \in Procs, k \in RouteKeys : Hash(p, k)
    \/ \E p \in Procs, k \in RouteKeys : Route(p, k)

SpecHash == Init /\ [][NextHash]_vars

\* ------------------------------------------------------------------ claims
\* the entry of key k in its shard, and whether it is there
\* (the shards of the keys, computed once)
GroupOf == [k \in Keys \cup FlushKeys \cup {NoKey} |-> getGroup(k)]
Entry(k) == Lookup(items[GroupOf[k]], k)
InMap(k) == Present(items[GroupOf[k]], k)
\* the same in the state a step leads to
EntryAfter(k) == Lookup(items'[GroupOf[k]], k)
InMapAfter(k) == Present(items'[GroupOf[k]], k)

\* caller p leaves pc `at` in this step
Leaves(p, at) == proc[p].pc = at /\ proc'[p].pc # at

\* this step is the critical section of a caller's write to key k, the
\* clearing of k's shard by Flush, or a scan of the janitor of k's shard
WritesKey(p, k) ==
    \/ /\ proc[p].key = k
       /\ \/ Leaves(p, "Put_Store")
          \/ Leaves(p, "Add_Store")
          \/ Leaves(p, "Forever_Store")
          \/ Leaves(p, "Forget_Delete")
          \/ Leaves(p, "Pull_Delete")
          \/ Leaves(p, "Increment_Write")
          \/ Leaves(p, "Decrement_Write")
    \/ /\ proc[p].pc = "Flush_Clear"
       /\ proc[p].i = GroupOf[k]
       /\ proc'[p] # proc[p]

Scans(s) == jan[s].pc = "scan" /\ jan'[s].pc # "scan"

OthersKept(k) ==
    \A x \in Keys \ {k} : InMapAfter(x) = InMap(x) /\ EntryAfter(x) = Entry(x)

\* what a finished call of op on key k returned
Result(op, k, val, err) == [op |-> op, key |-> k, val |-> val, err |-> err]

\* C2: the step of Add that stores leaves the whole cache as it is when the
\* key is in the map, and otherwise inserts exactly (value, now + seconds or
\* 0) and touches no other key; two Adds of one key are never both past the
\* lock, so the Add that got the lock first is the one that inserts; and an
\* entry only changes in a storing step of an Add of its key or in a scan.
C2_AddConditional ==
    [][/\ \A p \in Procs :
            Leaves(p, "Add_Store") =>
                IF InMap(proc[p].key)
                THEN items' = items
                ELSE /\ InMapAfter(proc[p].key)
                     /\ EntryAfter(proc[p].key) =
                            Item(proc[p].value, Expiry(now, proc[p].seconds))
                     /\ OthersKept(proc[p].key)
       /\ \A p \in Procs : \A q \in Procs \ {p} :
            ~ /\ proc[p].pc \in {"Add_Check", "Add_Store"}
              /\ proc[q].pc \in {"Add_Check", "Add_Store"}
              /\ proc[p].key = proc[q].key
       /\ \A k \in Keys :
            \/ InMapAfter(k) = InMap(k) /\ EntryAfter(k) = Entry(k)
            \/ \E p \in Procs : proc[p].key = k /\ Leaves(p, "Add_Store")
            \/ Scans(GroupOf[k])
      ]_vars

\* C2: two Adds of one key with different values were called and nothing
\* else; one has inserted and returned, the other found the key and is about
\* to store nothing
W2_SecondAddLoses ==
    \E p \in Procs : \E q \in Procs \ {p} :
        /\ calls = MaxConcCalls - 2
        /\ ret[q].op = "Add"
        /\ proc[p].pc = "Add_Store"
        /\ proc[p].key = ret[q].key
        /\ proc[p].ok
        /\ InMap(proc[p].key)
        /\ Entry(proc[p].key).value # proc[p].value

\* no write is running and none will start: the caller has used up its calls
\* and is idle or inside a Get or a Has
NoLaterWrite ==
    /\ calls = 0
    /\ \A p \in Procs :
            proc[p].pc \in {"idle", "Get_RLock", "Get_Read",
                            "Has_RLock", "Has_Read"}

\* C3: a scan whose sampled time is strictly greater than the nonzero
\* expiration of an entry removes that entry; and, with the janitor running
\* and scheduled fairly, an entry whose expiration x > 0 the clock can pass
\* and that no later call writes is eventually absent from the map.
C3_ExpiryEnforced ==
    /\ [][\A k \in Keys :
            (/\ Scans(GroupOf[k])
             /\ InMap(k)
             /\ Entry(k).Expiration > 0
             /\ jan[GroupOf[k]].now > Entry(k).Expiration)
            => ~InMapAfter(k)
         ]_vars
    /\ \A k \in HotKeys : \A x \in 1..(MaxTime - 1) :
            (NoLaterWrite /\ InMap(k) /\ Entry(k).Expiration = x)
                ~> ~InMap(k)

\* C3: no write will follow, and the janitor holds the lock for a scan with
\* a sampled time past the expiration of an entry that Put stored
W3_SweepOfExpired ==
    \E k \in HotKeys :
        /\ NoLaterWrite
        /\ InMap(k)
        /\ Entry(k).Expiration > 0
        /\ jan[GroupOf[k]].pc = "scan"
        /\ jan[GroupOf[k]].now > Entry(k).Expiration

\* C4: the reading step of Get returns the value of the entry that is in the
\* map, and that of Has returns true, also when the entry's expiration is
\* nonzero and has passed.
C4_ReadersIgnoreExpiry ==
    [][\A p \in Procs :
            /\ (Leaves(p, "Get_Read") /\ InMap(proc[p].key)) =>
                    ret'[p] = Result("Get", proc[p].key,
                                     Entry(proc[p].key).value, "nil")
            /\ (Leaves(p, "Has_Read") /\ InMap(proc[p].key)) =>
                    ret'[p] = Result("Has", proc[p].key, BoolV(TRUE), "nil")
      ]_vars

\* C4: Get holds the read lock and is about to read an entry whose
\* expiration has passed
W4_ReadsExpired ==
    \E p \in Procs :
        /\ proc[p].pc = "Get_Read"
        /\ InMap(proc[p].key)
        /\ Entry(proc[p].key).Expiration > 0
        /\ now > Entry(proc[p].key).Expiration

\* C5: Forever stores (value, 0); an entry with expiration 0 stays in the map
\* with its value through every step that is not the critical section of a
\* Put, Forever, Forget, Pull, Increment or Decrement of its key or Flush's
\* clearing of its shard: no scan, no clock tick, no Add and no read removes
\* or changes it.
C5_ForeverPersists ==
    [][/\ \A p \in Procs :
            Leaves(p, "Forever_Store") =>
                /\ InMapAfter(proc[p].key)
                /\ EntryAfter(proc[p].key) = Item(proc[p].value, 0)
                /\ ret'[p] = Result("Forever", proc[p].key, Nil, "nil")
       /\ \A k \in Keys :
            (/\ InMap(k)
             /\ Entry(k).Expiration = 0
             /\ ~ \E p \in Procs :
                    WritesKey(p, k) /\ ~Leaves(p, "Add_Store"))
            => (InMapAfter(k) /\ EntryAfter(k) = Entry(k))
      ]_vars

\* C5: Forever has returned, its entry is in the map and the janitor holds
\* the lock for a scan
W5_ScanOverForever ==
    \E p \in Procs :
        /\ ret[p].op = "Forever"
        /\ InMap(ret[p].key)
        /\ Entry(ret[p].key).Expiration = 0
        /\ jan[GroupOf[ret[p].key]].pc = "scan"
        /\ jan[GroupOf[ret[p].key]].now > 1

\* the callers that are between the Lock and the Unlock of a counter call
InCounter(p) ==
    proc[p].pc \in {"Increment_Read", "Increment_Write",
                    "Decrement_Read", "Decrement_Write"}

\* C6: with callers running Increment and Decrement concurrently, the
\* writing step of a counter call on a key that holds an integer adds n (or
\* subtracts n) to the value that is in the map at that very step and
\* returns the result without error, so no update is lost and the results
\* are those of the calls run one after the other in the order of their
\* writes; two counter calls are never both between Lock and Unlock; and an
\* entry changes in no other step.
C6_CountersAtomic ==
    [][/\ \A p \in Procs :
            LET k == proc[p].key
                v == Entry(k).value.v
            IN  /\ (Leaves(p, "Increment_Write") /\ InMap(k)) =>
                    /\ EntryAfter(k).value = IntV(v + proc[p].n)
                    /\ ret'[p] = Result("Increment", k,
                                        IntV(v + proc[p].n), "nil")
                /\ (Leaves(p, "Decrement_Write") /\ InMap(k)) =>
                    /\ EntryAfter(k).value = IntV(v - proc[p].n)
                    /\ ret'[p] = Result("Decrement", k,
                                        IntV(v - proc[p].n), "nil")
       /\ \A p \in Procs : \A q \in Procs \ {p} :
            ~ (InCounter(p) /\ InCounter(q))
       /\ \A k \in Keys :
            \/ InMapAfter(k) = InMap(k) /\ EntryAfter(k) = Entry(k)
            \/ \E p \in Procs :
                    /\ proc[p].key = k
                    /\ Leaves(p, "Increment_Write") \/ Leaves(p, "Decrement_Write")
      ]_vars

\* C6: a counter call has read the integer of the key and holds the lock
\* while another counter call on the same key waits for it
W6_CountersContend ==
    \E p \in Procs : \E q \in Procs \ {p} :
        /\ proc[p].pc \in {"Increment_Write", "Decrement_Write"}
        /\ proc[p].ok
        /\ proc[q].pc \in {"Increment_Lock", "Decrement_Lock"}
        /\ proc[q].key = proc[p].key
        /\ InMap(proc[p].key)

\* the entry a counter call makes of entry it by adding d
AddTo(it, d) == Item(IntV(it.value.v + d), it.Expiration)

\* C7: Increment(k, n) on an absent key inserts (n, no expiration) and
\* returns n; on a key that holds the integer v it stores and returns v + n;
\* Decrement(k, n) on a key that holds the integer v stores and returns
\* v - n, the entry and result Increment(k, -n) gives.
C7_CounterArithmetic ==
    [][\A p \in Procs :
            LET k == proc[p].key
                n == proc[p].n
            IN  /\ (Leaves(p, "Increment_Write") /\ ~InMap(k)) =>
                    /\ InMapAfter(k)
                    /\ EntryAfter(k) = Item(IntV(n), 0)
                    /\ ret'[p] = Result("Increment", k, IntV(n), "nil")
                /\ (Leaves(p, "Increment_Write") /\ InMap(k)
                        /\ Entry(k).value.t = "int") =>
                    /\ InMapAfter(k)
                    /\ EntryAfter(k) = AddTo(Entry(k), n)
                    /\ ret'[p] = Result("Increment", k,
                                        AddTo(Entry(k), n).value, "nil")
                /\ (Leaves(p, "Decrement_Write") /\ InMap(k)
                        /\ Entry(k).value.t = "int") =>
                    /\ InMapAfter(k)
                    /\ EntryAfter(k) = AddTo(Entry(k), 0 - n)
                    /\ ret'[p] = Result("Decrement", k,
                                        AddTo(Entry(k), 0 - n).value, "nil")
      ]_vars

\* C7: Increment made the key and Decrement has then returned the value
\* that is now stored
W7_DecrementAfterIncrement ==
    \E p \in Procs :
        /\ calls = 0
        /\ ret[p].op = "Decrement"
        /\ ret[p].err = "nil"
        /\ InMap(ret[p].key)
        /\ Entry(ret[p].key) = Item(ret[p].val, 0)
        /\ \A k \in Keys \ {ret[p].key} : ~InMap(k)

\* C8: Decrement of a key that is not in the map returns the missing-key
\* error and leaves the map of every shard as it is, while Increment of a
\* key that is not in the map puts it there.
C8_DecrementMissing ==
    [][\A p \in Procs :
            /\ (Leaves(p, "Decrement_Write") /\ ~InMap(proc[p].key)) =>
                    /\ ret'[p].op = "Decrement"
                    /\ ret'[p].err = "undefined_key"
                    /\ items' = items
            /\ (Leaves(p, "Increment_Write") /\ ~InMap(proc[p].key)) =>
                    /\ ret'[p].err = "nil"
                    /\ InMapAfter(proc[p].key)
      ]_vars

\* C8: Decrement has returned the missing-key error and its key is absent
W8_DecrementFailed ==
    \E p \in Procs :
        /\ ret[p].op = "Decrement"
        /\ ret[p].err = "undefined_key"
        /\ ~InMap(ret[p].key)

\* C9: Increment and Decrement of a key whose value is not an integer
\* return the type-mismatch error and leave the map of every shard as it is.
C9_TypeMismatch ==
    [][\A p \in Procs :
            (/\ Leaves(p, "Increment_Write") \/ Leaves(p, "Decrement_Write")
             /\ InMap(proc[p].key)
             /\ Entry(proc[p].key).value.t # "int")
            => /\ ret'[p].err = "invalid_type"
               /\ ret'[p].val = IntV(0)
               /\ items' = items
      ]_vars

\* C9: a counter call has returned the type-mismatch error and the string
\* is still stored under its key
W9_MismatchReported ==
    \E p \in Procs :
        /\ ret[p].op \in {"Increment", "Decrement"}
        /\ ret[p].err = "invalid_type"
        /\ InMap(ret[p].key)
        /\ Entry(ret[p].key).value.t = "string"

\* C10: with one caller, the deleting step of Pull leaves its key absent and
\* every other key as it was and returns no error; when the entry of the key
\* is still the one that was there when Pull was called, Pull returns the
\* value of that entry (nil when there was none); Get and Has of an absent
\* key return nil and false.
C10_PullRemoves ==
    [][\A p \in Procs :
            LET k == proc[p].key IN
            /\ Leaves(p, "Pull_Delete") =>
                    /\ ~InMapAfter(k)
                    /\ OthersKept(k)
                    /\ ret'[p].op = "Pull"
                    /\ ret'[p].err = "nil"
                    /\ (InMap(k) = proc[p].ok /\ Entry(k) = proc[p].v) =>
                            ret'[p].val = proc[p].v.value
            /\ (Leaves(p, "Get_Read") /\ ~InMap(k)) =>
                    ret'[p] = Result("Get", k, Nil, "nil")
            /\ (Leaves(p, "Has_Read") /\ ~InMap(k)) =>
                    ret'[p] = Result("Has", k, BoolV(FALSE), "nil")
      ]_vars

\* C10: Pull has returned a value that was stored and its key is absent
W10_Pulled ==
    \E p \in Procs :
        /\ calls = 0
        /\ ret[p].op = "Pull"
        /\ ret[p].val # Nil
        /\ ~InMap(ret[p].key)

\* this step removes key k from its map: the deleting step of a Forget or a
\* Pull of k, Flush's clearing of k's shard
Removes(p, k) ==
    \/ /\ proc[p].key = k
       /\ Leaves(p, "Forget_Delete") \/ Leaves(p, "Pull_Delete")
    \/ /\ proc[p].pc = "Flush_Clear"
       /\ proc[p].i = GroupOf[k]
       /\ proc'[p] # proc[p]

\* this step is the storing step of a Put, Add, Forever or Increment of k
Inserts(p, k) ==
    /\ proc[p].key = k
    /\ \/ Leaves(p, "Put_Store")
       \/ Leaves(p, "Add_Store")
       \/ Leaves(p, "Forever_Store")
       \/ Leaves(p, "Increment_Write")

C12_HasFalseOnNil ==
    [][\A p \in Procs :
            (/\ Leaves(p, "Has_Read")
             /\ InMap(proc[p].key)
             /\ Entry(proc[p].key).value = Nil)
            => ret'[p] = Result("Has", proc[p].key, BoolV(FALSE), "nil")
      ]_vars

\* C13: Forget reports whether it removed something: its deleting step
\* returns true when the key is in the map and false when it is not, in both
\* cases without error and leaving the key out of the map.
C13_ForgetReportsRemoval ==
    [][\A p \in Procs :
            Leaves(p, "Forget_Delete") =>
                /\ ret'[p] = Result("Forget", proc[p].key,
                                    BoolV(InMap(proc[p].key)), "nil")
                /\ ~InMapAfter(proc[p].key)
      ]_vars

\* C14: with one caller, while Flush walks the shards every shard it has
\* passed is empty, and when Flush has returned (and until the next call)
\* the map of every shard is empty; its clearing step empties the shard it
\* is at whatever the entries there hold and changes no other shard; Get
\* and Has of any key then return nil and false.
C14_FlushClearsAll ==
    /\ [](\A p \in Procs :
            /\ proc[p].pc \in {"Flush_Lock", "Flush_Clear"} =>
                    \A s \in Shards : s < proc[p].i => items[s] = EmptyMap
            /\ ret[p].op = "Flush" =>
                    /\ ret[p].err = "nil"
                    /\ \A s \in Shards : items[s] = EmptyMap)
    /\ [][\A p \in Procs :
            /\ (proc[p].pc = "Flush_Clear" /\ proc'[p] # proc[p]) =>
                    /\ items'[proc[p].i] = EmptyMap
                    /\ \A s \in Shards \ {proc[p].i} : items'[s] = items[s]
            /\ (ret[p].op = "Flush" /\ ret'[p].op \in {"Get", "Has"}) =>
                    ret'[p].val \in {Nil, BoolV(FALSE)}
         ]_vars

\* C14: Flush has cleared the shards below those of "b" and "a" and holds
\* the lock of the first of them, while both keys are in their maps with
\* values of different types
W14_FlushOverTwoShards ==
    \E p \in Procs :
        /\ proc[p].pc = "Flush_Clear"
        /\ proc[p].i \in FlushShards
        /\ \A k \in FlushKeys : InMap(k)
        /\ \E k \in FlushKeys : \E x \in FlushKeys :
                Entry(k).value.t # Entry(x).value.t

\* C15: with every caller putting its own key concurrently and all callers
\* reading, no call returns an error; a key that is in the map holds the
\* value its writer put; the storing step of a Put puts its key in the map
\* and a key that is in the map stays there through every step, also through
\* the Puts of the other keys of its shard, so no update is lost; and Get of
\* a key that is in the map returns the value its writer put.
C15_NoLostUpdates ==
    /\ [](\A p \in Procs :
            /\ ret[p].err = "nil"
            /\ InMap(WriterKey(p)) => Entry(WriterKey(p)).value = IntV(p))
    /\ [][/\ \A p \in Procs :
                /\ Leaves(p, "Put_Store") => InMapAfter(proc[p].key)
                /\ (Leaves(p, "Get_Read") /\ InMap(proc[p].key)) =>
                        \E q \in Procs :
                            /\ proc[p].key = WriterKey(q)
                            /\ ret'[p] = Result("Get", proc[p].key,
                                                IntV(q), "nil")
          /\ \A k \in WriterKeys : InMap(k) => InMapAfter(k)
         ]_vars

\* C15: all calls are used up and have returned, two callers have put their
\* keys, which share a shard, and a Get has read the key another caller put
W15_AllWritten ==
    /\ calls = 0
    /\ \A p \in Procs : proc[p].pc = "idle"
    /\ \E p \in Procs : \E q \in Procs \ {p} :
            /\ InMap(WriterKey(p))
            /\ InMap(WriterKey(q))
            /\ GroupOf[WriterKey(p)] = GroupOf[WriterKey(q)]
            /\ ret[p] = Result("Get", WriterKey(q), IntV(q), "nil")

\* C16: under fair scheduling every call that has started returns, that
\* is, the callers, who start finitely many calls, are eventually all idle
\* for good, and every sweep that has started completes, that is, the
\* janitor is in its select again and again; so no caller and no janitor
\* waits for a lock forever.
C16_OperationsTerminate ==
    /\ <>[](\A p \in Procs : proc[p].pc = "idle")
    /\ \A s \in SweptShards : []<>(jan[s].pc = "select")

\* C16: a caller is blocked in Lock behind a reader that holds the read
\* lock of the shard, with the janitor blocked on the same lock
W16_Blocked ==
    \E p \in Procs : \E q \in Procs \ {p} : \E s \in SweptShards :
        /\ proc[p].pc \in {"Put_Lock", "Add_Lock", "Forever_Lock",
                            "Forget_Lock", "Pull_Lock", "Increment_Lock",
                            "Decrement_Lock", "Flush_Lock"}
        /\ q \in mu[s].r
        /\ mu[s].pend # 0
        /\ jan[s].pc = "lock"

\* a uint32 held as two 16-bit halves, modulo n
Uint32Mod(h, n) == ((h[1] % n) * (65536 % n) + (h[2] % n)) % n

\* C17: the shard index computed for a key is fnv32 of the key's bytes
\* modulo the number of shards, it is at least 0 and less than that number,
\* and whoever computes the index of the same key, at whatever time and over
\* whatever cache contents, gets the same index.
C17_ShardRouting ==
    \A p \in Procs :
        ret[p].op = "getGroup" =>
            /\ ret[p].val.t = "int"
            /\ ret[p].val.v >= 0
            /\ ret[p].val.v < cacheGroupCount
            /\ ret[p].val.v = Uint32Mod(fnv32(ret[p].key), cacheGroupCount)
            /\ \A q \in Procs :
                    (ret[q].op = "getGroup" /\ ret[q].key = ret[p].key)
                        => ret[q].val = ret[p].val

\* C17: two callers have computed the shard of "a", which is 30 (fnv32 of
\* "a" is 0x050C5D7E), one of them after a Put had stored the key in between
\* and the clock had advanced
W17_RoutedTwice ==
    \E p \in Procs : \E q \in Procs \ {p} :
        /\ ret[p] = Result("getGroup", <<97>>, IntV(30), "nil")
        /\ ret[q] = ret[p]
        /\ now > 1
        /\ InMap(<<97>>)

\* C18: whatever the key holds (nothing, a nil value, an entry whose
\* expiration has passed), a Put, Add, Get, Has, Forever, Forget or Flush
\* that has returned has returned a nil error.
C18_NeverFail ==
    \A p \in Procs :
        ret[p].op \in {"Put", "Add", "Get", "Has", "Forever", "Forget", "Flush"}
            => ret[p].err = "nil"

\* C18: a Get has returned, without error, from a key that is still in the
\* map with an expiration that has passed
W18_GetOfExpired ==
    \E p \in Procs :
        /\ ret[p].op = "Get"
        /\ ret[p].err = "nil"
        /\ InMap(ret[p].key)
        /\ Entry(ret[p].key).Expiration > 0
        /\ now > Entry(ret[p].key).Expiration

\* C19: the reading step of a Get of a key that is not in the map returns
\* (nil, nil); a Pull of a key that was not in the map when it was called
\* returns (nil, nil); and no step of a Get, and no step of such a Pull,
\* changes the map of any shard.
C19_MissIsNoError ==
    [][\A p \in Procs :
            /\ (Leaves(p, "Get_Read") /\ ~InMap(proc[p].key)) =>
                    ret'[p] = Result("Get", proc[p].key, Nil, "nil")
            /\ (proc[p].pc \in {"Get_RLock", "Get_Read"}
                    /\ proc'[p] # proc[p]) =>
                    items' = items
            /\ (proc[p].pc \in {"Pull_RLock", "Pull_Read", "Pull_Lock",
                                 "Pull_Delete"}
                    /\ ~proc[p].ok /\ proc'[p] # proc[p]) =>
                    items' = items
            /\ (Leaves(p, "Pull_Delete") /\ ~proc[p].ok) =>
                    ret'[p] = Result("Pull", proc[p].key, Nil, "nil")
      ]_vars

\* C19: a Pull of a key that is not in the map has returned (nil, nil)
\* while the other key is in the map
W19_PullMissed ==
    \E p \in Procs :
        /\ ret[p].op = "Pull"
        /\ ret[p].val = Nil
        /\ ret[p].err = "nil"
        /\ ~InMap(ret[p].key)
        /\ \E k \in Keys \ {ret[p].key} : InMap(k) /\ Entry(k).value # Nil

\* C20: cache.New leaves a Manager whose Mem is initialised and whose
\* default backend is never nil; the default is the Redis backend exactly
\* when the driver is "redis" and a Redis manager or a Config other than the
\* zero one was given, and the in-memory backend in every other case; a
\* built Manager never changes; a call made through the Manager runs in
\* the default backend, and none of its steps changes the contents of the
\* other backend.
C20_DefaultDriver ==
    [][/\ \A d \in Drivers, r \in RedisManagers, c \in Configs :
            New(d, r, c) =>
                /\ mgr'.Mem = "cache"
                /\ mgr'.defaultCache \in {"Mem", "Redis"}
                /\ mgr'.defaultCache = "Redis" <=>
                        (d = RedisCache /\ (r # "nil" \/ c # EmptyConfig))
                /\ mgr'.defaultCache = "Redis" => ~mgr'.Redis.nil
       /\ mgr # NoManager => mgr' = mgr
       /\ \A p \in Caller :
            /\ proc[p].pc \notin {"idle", "panic"} =>
                    (proc[p].pc \in RedisPcs <=> mgr.defaultCache = "Redis")
            /\ proc'[p] # proc[p] =>
                    /\ mgr.defaultCache = "Mem" => rds' = rds
                    /\ mgr.defaultCache = "Redis" => items' = items
      ]_vars

\* C20: the driver was "redis" with a connection: a Put through the Manager
\* has stored its value on the Redis server while the in-memory cache holds
\* another value for the same key, put there through m.Mem
W20_RedisDefaultMemKept ==
    \E p \in Caller :
        /\ mgr.defaultCache = "Redis"
        /\ ret[p].op = "Put"
        /\ RedisLive(RedisKey(ret[p].key))
        /\ InMap(ret[p].key)
        /\ Marshal(Entry(ret[p].key).value) # rds[RedisKey(ret[p].key)].bytes

\* whether the Redis server holds key k after a step
RedisLiveAfter(k) ==
    /\ k \in DOMAIN rds'
    /\ rds'[k].expireAt = 0 \/ now' < rds'[k].expireAt

\* C21: in both backends a Decrement of a key that has no entry returns an
\* error and leaves the key without an entry, and a Has of a key without an
\* entry returns false.
C21_DecrementMissingAgree ==
    [][\A p \in Procs :
            /\ (Leaves(p, "Decrement_Write") /\ ~InMap(proc[p].key)) =>
                    /\ ret'[p].err # "nil"
                    /\ ~InMapAfter(proc[p].key)
            /\ (/\ Leaves(p, "Redis_Decrement_Do")
                /\ ~RedisLive(RedisKey(proc[p].key))) =>
                    /\ ret'[p].err # "nil"
                    /\ ~RedisLiveAfter(RedisKey(proc[p].key))
            /\ (Leaves(p, "Has_Read") /\ ~InMap(proc[p].key)) =>
                    ret'[p].val = BoolV(FALSE)
            /\ (/\ Leaves(p, "Redis_Has_Exists")
                /\ ~RedisLive(RedisKey(proc[p].key))) =>
                    ret'[p].val = BoolV(FALSE)
      ]_vars

\* the callers inside a critical section that may mutate the map of shard s,
\* and the callers inside a read-only critical section on it
WritePcs ==
    {"Put_Store", "Add_Check", "Add_Store", "Forever_Store", "Forget_Delete",
     "Pull_Delete", "Increment_Read", "Increment_Write", "Decrement_Read",
     "Decrement_Write"}
ReadPcs == {"Get_Read", "Has_Read", "Pull_Read"}
Mutators(s) ==
    {p \in Procs : \/ proc[p].pc \in WritePcs /\ GroupOf[proc[p].key] = s
                   \/ proc[p].pc = "Flush_Clear" /\ proc[p].i = s}
Readers(s) == {p \in Procs : proc[p].pc \in ReadPcs /\ GroupOf[proc[p].key] = s}
Sweeping(s) == jan[s].pc = "scan"

\* C22: for every shard, at most one mutating access (a writing operation,
\* Flush's clearing of the shard, the janitor's scan) is in progress, it
\* holds the write lock of the shard, and no read of the shard is in
\* progress with it; reads in progress hold the read lock; and the map of
\* a shard only changes in a step of the holder of its write lock, the
\* janitor's scan being one such step.
C22_NoDataRace ==
    [][\A s \in Shards :
            /\ Cardinality(Mutators(s)) + (IF Sweeping(s) THEN 1 ELSE 0) <= 1
            /\ \A p \in Mutators(s) : mu[s].w = p /\ Readers(s) = {}
            /\ Sweeping(s) => mu[s].w = JanitorId(s) /\ Readers(s) = {}
            /\ Readers(s) \subseteq mu[s].r
            /\ items'[s] # items[s] =>
                    \/ mu[s].w \in Mutators(s)
                            /\ proc'[mu[s].w] # proc[mu[s].w]
                    \/ mu[s].w = JanitorId(s) /\ Scans(s)
      ]_vars

\* C22: two reads of one shard are in progress together, both under the
\* read lock, and no mutating access is
W22_ReadersOverlap ==
    \E s \in Shards :
        /\ Cardinality(Readers(s)) = 2
        /\ mu[s].r = Readers(s)
        /\ Mutators(s) = {} /\ ~Sweeping(s)

\* C23: a scan of shard s with sampled time t deletes from the map of s
\* exactly the entries with 0 < Expiration < t: entries with Expiration 0,
\* t or more than t stay, the entries that stay keep their value and
\* expiration, no other shard changes, and the scan ends with the lock
\* released and no entry with 0 < Expiration < t in the shard.
C23_SweepExact ==
    [][\A s \in SweptShards :
            Scans(s) =>
                /\ DOMAIN items'[s] =
                        {k \in DOMAIN items[s] :
                            ~(/\ items[s][k].Expiration > 0
                              /\ items[s][k].Expiration < jan[s].now)}
                /\ \A k \in DOMAIN items'[s] : items'[s][k] = items[s][k]
                /\ \A k \in DOMAIN items'[s] :
                        \/ items'[s][k].Expiration = 0
                        \/ items'[s][k].Expiration >= jan[s].now
                /\ \A t \in Shards \ {s} : items'[t] = items[t]
                /\ mu[s].w = JanitorId(s)
                /\ mu'[s].w = 0
      ]_vars

\* C23: the janitor holds the lock for a scan of a shard that holds an entry
\* whose expiration is before the sampled time and an entry that expires
\* exactly at the sampled time
W23_ScanOverBoth ==
    \E s \in SweptShards :
        /\ jan[s].pc = "scan"
        /\ \E k \in DOMAIN items[s] :
                items[s][k].Expiration > 0
                    /\ items[s][k].Expiration < jan[s].now
        /\ \E k \in DOMAIN items[s] : items[s][k].Expiration = jan[s].now

\* C24: Pull is a Get and then a Forget under two lock acquisitions: the
\* step that reads releases the read lock and leaves the caller waiting for
\* the write lock with no lock held, so that other callers get in between;
\* the deleting step removes whatever entry the key has by then and returns
\* the value that was read, not the value it deletes.
C24_PullTwoSections ==
    [][\A p \in Procs :
            LET k == proc[p].key
                s == GroupOf[k]
            IN
            /\ Leaves(p, "Pull_Read") =>
                    /\ proc'[p].pc = "Pull_Lock"
                    /\ proc'[p].value = Entry(k).value
                    /\ p \notin mu'[s].r
                    /\ mu'[s].w # p
                    /\ items' = items
            /\ proc[p].pc = "Pull_Lock" =>
                    p \notin mu[s].r /\ mu[s].w # p
            /\ Leaves(p, "Pull_Delete") =>
                    /\ mu[s].w = p
                    /\ ~InMapAfter(k)
                    /\ ret'[p] = Result("Pull", k, proc[p].value, "nil")
      ]_vars

\* C24: a Pull that read the value of one caller holds the write lock to
\* delete, and the entry it is about to delete holds the value that another
\* caller put after the read, whose Put has returned
W24_PutBetween ==
    \E p \in Procs, q \in Procs :
        /\ proc[p].pc = "Pull_Delete"
        /\ proc[p].value # Nil
        /\ InMap(proc[p].key)
        /\ Entry(proc[p].key).value = IntV(q)
        /\ proc[p].value # IntV(q)
        /\ ret[q] = Result("Put", proc[p].key, Nil, "nil")

\* two Pulls of the key have both returned the same value, which is not nil
PulledTwice ==
    \E p \in Procs : \E q \in Procs \ {p} :
        /\ ret[p].op = "Pull" /\ ret[q].op = "Pull"
        /\ ret[p].key = ret[q].key
        /\ ret[p].val = ret[q].val
        /\ ret[p].val # Nil

\* caller p is inside Flush
InFlush(p) == proc[p].pc \in {"Flush_Lock", "Flush_Clear"}

\* C25: Flush walks the shards in index order and holds one lock at a time:
\* waiting for the lock of shard i it holds no lock, clearing shard i it
\* holds the lock of i only, and its clearing step empties shard i, leaves
\* every other shard as it is and moves on to shard i + 1; so the shards it
\* has passed are open to the other callers, and an entry that is in a
\* shard Flush has passed is not touched by the rest of that Flush.
C25_FlushShardByShard ==
    [][\A p \in Procs :
            InFlush(p) =>
                /\ \A s \in Shards :
                        mu[s].w = p =>
                            proc[p].pc = "Flush_Clear" /\ s = proc[p].i
                /\ proc[p].pc = "Flush_Clear" => mu[proc[p].i].w = p
                /\ proc'[p] # proc[p] =>
                        /\ \A s \in Shards \ {proc[p].i} : items'[s] = items[s]
                        /\ proc[p].pc = "Flush_Clear" =>
                                /\ items'[proc[p].i] = EmptyMap
                                /\ mu'[proc[p].i].w = 0
                                /\ InFlush(p)' => proc'[p].i = proc[p].i + 1
                        /\ proc[p].pc = "Flush_Lock" =>
                                proc'[p].i = proc[p].i
      ]_vars

\* C25: Flush is past the shard of "b" and has not cleared the shard of "a";
\* the Put of "b" by another caller has returned and "b" is gone, while "a"
\* is still in its map
W25_HalfFlushed ==
    \E p \in Procs : \E q \in Procs \ {p} :
        /\ InFlush(p)
        /\ proc[p].i > GroupOf[<<98>>]
        /\ proc[p].i <= GroupOf[<<97>>]
        /\ ret[q] = Result("Put", <<98>>, Nil, "nil")
        /\ ~InMap(<<98>>)
        /\ InMap(<<97>>)

\* Flush is past the shard of "b" and "b" is in its map: a Put stored it
\* after Flush cleared the shard, and this Flush will not remove it
PutSurvives ==
    \E p \in Procs :
        /\ InFlush(p)
        /\ proc[p].i > GroupOf[<<98>>]
        /\ InMap(<<98>>)

\* the callers between the RLock and the return of a variant counter call
InCounterRL(p) ==
    proc[p].pc \in {"IncrementRL_Read", "IncrementRL_Write",
                    "DecrementRL_Read", "DecrementRL_Write"}

\* C26: the read-lock variant of Increment and Decrement runs its
\* read-modify-write under the read lock of the shard only, which does not
\* keep a second counter call out; its storing step on an integer entry
\* stores and returns the value it read earlier plus (or minus) n, whatever
\* the map holds by then, so that an update made in between is overwritten.
C26_ReadLockCounters ==
    [][\A p \in Procs :
            LET k == proc[p].key
                s == GroupOf[k]
            IN
            /\ InCounterRL(p) => (p \in mu[s].r /\ mu[s].w = 0)
            /\ (Leaves(p, "IncrementRL_Read") \/ Leaves(p, "DecrementRL_Read"))
                    => (proc'[p].v = Entry(k) /\ proc'[p].ok = InMap(k))
            /\ (/\ proc[p].pc \in {"IncrementRL_Write", "DecrementRL_Write"}
                /\ proc'[p].pc = "idle"
                /\ proc[p].ok
                /\ proc[p].v.value.t = "int") =>
                    LET nv == IF proc[p].pc = "IncrementRL_Write"
                              THEN proc[p].v.value.v + proc[p].n
                              ELSE proc[p].v.value.v - proc[p].n
                    IN  /\ EntryAfter(k) = Item(IntV(nv), proc[p].v.Expiration)
                        /\ ret'[p].val = IntV(nv)
                        /\ ret'[p].err = "nil"
      ]_vars

\* C26: three Increment(k, 1) have returned, the last one of every caller
\* returned 2 and the key holds 2: the two that ran on the entry 1 were
\* both inside the critical section, both read 1 and both stored 2
W26_LostUpdate ==
    /\ calls = 0
    /\ \A p \in Procs :
            ret[p] = Result("Increment", <<97>>, IntV(2), "nil")
    /\ Entry(<<97>>).value = IntV(2)

\* C27: the step in which Increment or Decrement returns - the entry made
\* on a miss, the new value, the missing-key error, the type-mismatch
\* error - releases the write lock the call held; a caller that is not in
\* a call holds no lock, waits for none and is no reader of any shard; and
\* with the goroutines scheduled fairly the calls that follow get the locks
\* and return: from some point on no caller holds or waits for a lock.
C27_CountersUnlock ==
    /\ [](\A p \in Procs :
            proc[p].pc = "idle" =>
                \A s \in Shards :
                    mu[s].w # p /\ mu[s].pend # p /\ p \notin mu[s].r)
    /\ [][\A p \in Procs :
            (Leaves(p, "Increment_Write") \/ Leaves(p, "Decrement_Write")) =>
                /\ mu[GroupOf[proc[p].key]].w = p
                /\ mu'[GroupOf[proc[p].key]].w = 0
                /\ proc'[p].pc = "idle"
                /\ ret'[p].op \in {"Increment", "Decrement"}
                /\ ret'[p].err \in {"nil", "undefined_key", "invalid_type"}
         ]_vars
    /\ <>[](\A s \in Shards :
                mu[s].w \notin Procs /\ mu[s].pend \notin Procs
                    /\ mu[s].r = {})

\* C27: Increment has returned the type-mismatch error and the janitor of
\* the key's shard has taken the write lock for a scan
W27_SweepAfterMismatch ==
    \E p \in Procs :
        /\ ret[p].op = "Increment"
        /\ ret[p].err = "invalid_type"
        /\ jan[GroupOf[ret[p].key]].pc = "scan"
        /\ mu[GroupOf[ret[p].key]].w = JanitorId(GroupOf[ret[p].key])

\* a read lock of shard s was left behind by a variant counter call
LeakedIn(s) == \E p \in Procs : Leaked(p) \in mu[s].r

\* the callers blocked in RLock, and the writers blocked in Lock
AtRLock(p) == proc[p].pc \in {"Get_RLock", "Has_RLock"}
AtLock(p) ==
    proc[p].pc \in {"Put_Lock", "Add_Lock", "Forever_Lock", "Forget_Lock"}

\* C28 as stated: once a variant counter call has returned from its
\* type-mismatch path without RUnlock, no writer gets the lock of the shard
\* any more, and a Get or a Has of a key of the shard can still take the
\* read lock.
C28_LeakReadersGoOn ==
    \A s \in Shards :
        LeakedIn(s) =>
            /\ mu[s].w = 0
            /\ \A p \in Procs :
                    (AtRLock(p) /\ GroupOf[proc[p].key] = s) => CanRLock(s)

\* C28, amended: the type-mismatch return of the variant Increment and
\* Decrement leaves the read lock held; it is never released, and from then
\* on no writer - Put, Add, Forever, Forget, the janitor - gets the lock of
\* the shard; Get and Has of the shard go on only while no writer waits
\* for the lock: once a writer has called Lock it waits forever, and no
\* reader is let in any more, so Get and Has block as well.
C28_LeakBlocksAll ==
    [][/\ \A p \in Procs :
            (/\ proc[p].pc \in {"IncrementRL_Write", "DecrementRL_Write"}
             /\ proc'[p].pc = "idle"
             /\ proc[p].ok
             /\ proc[p].v.value.t # "int") =>
                /\ ret'[p].err = "invalid_type"
                /\ Leaked(p) \in mu'[GroupOf[proc[p].key]].r
                /\ items' = items
       /\ \A s \in Shards :
            LeakedIn(s) =>
                /\ LeakedIn(s)'
                /\ mu[s].w = 0 /\ mu'[s].w = 0
                /\ \A p \in Procs :
                        (AtLock(p) /\ GroupOf[proc[p].key] = s) =>
                            proc'[p] = proc[p]
                /\ jan[s].pc = "lock" => jan'[s] = jan[s]
                /\ mu[s].pend # 0 =>
                        /\ mu'[s].pend = mu[s].pend
                        /\ (mu'[s].r \cap Procs) \subseteq mu[s].r
                        /\ \A p \in Procs :
                                (AtRLock(p) /\ GroupOf[proc[p].key] = s) =>
                                    proc'[p] = proc[p]
                /\ mu[s].pend = 0 =>
                        \A p \in Procs :
                            (AtRLock(p) /\ GroupOf[proc[p].key] = s) =>
                                CanRLock(s)
      ]_vars

\* C28: a read lock was left behind, the janitor has called Lock and waits,
\* and a Get of a key that is in the map is blocked in RLock
W28_ReaderBlocked ==
    \E p \in Procs :
        LET s == GroupOf[proc[p].key] IN
        /\ proc[p].pc = "Get_RLock"
        /\ InMap(proc[p].key)
        /\ LeakedIn(s)
        /\ mu[s].pend = JanitorId(s)
        /\ ~CanRLock(s)

\* the pcs at which a caller is about to write the entry of its key, and
\* the one at which Flush is about to replace the map of a shard
StorePcs == {"Put_Store", "Add_Store", "Forever_Store", "Increment_Write",
             "Decrement_Write", "Forget_Delete", "Pull_Delete"}

WrittenByCaller(s, k) ==
    \/ \E p \in Procs : proc[p].pc \in StorePcs /\ proc[p].key = k
    \/ \E p \in Procs : proc[p].pc = "Flush_Clear" /\ proc[p].i = s

\* C29: Stopped is terminal. The step in which a stopJanitor call gets its
\* value through to the janitor of a shard leaves that janitor stopped, and
\* a stopped janitor stays stopped in every later state, whatever operation
\* of the cache runs: it never samples the clock for a new tick, never holds
\* or waits for the lock of its shard, and an entry of the shard disappears
\* or changes only in the step of a caller that stores, deletes or flushes
\* it - so an expired entry stays in the map until then.
C29_StoppedTerminal ==
    [][\A s \in StopShards :
        /\ (\E p \in Procs : /\ Sending(p, s)
                             /\ proc'[p].pc # "stopJanitor_Send")
                => jan'[s].pc = "stopped"
        /\ jan[s].pc = "stopped" =>
            /\ jan'[s] = jan[s]
            /\ mu[s].w # JanitorId(s) /\ mu'[s].w # JanitorId(s)
            /\ mu[s].pend # JanitorId(s) /\ mu'[s].pend # JanitorId(s)
            /\ \A k \in DOMAIN items[s] :
                    (\/ k \notin DOMAIN items'[s]
                     \/ Lookup(items'[s], k) # items[s][k])
                        => WrittenByCaller(s, k)]_vars

\* C29: the janitor of the shard has stopped, no call is in progress, and
\* an entry whose expiration lies in the past is still in the map
W29_ExpiredStays ==
    \E s \in StopShards : \E k \in HotKeys :
        /\ jan[s].pc = "stopped"
        /\ \A p \in Procs : proc[p].pc = "idle"
        /\ Present(items[s], k)
        /\ Expired(items[s][k], now)

\* C30: the stop signal is a synchronous hand-off. A caller in the send of
\* stopJanitor stays there, with everything of its call unchanged, in every
\* step but one: the step in which the janitor of that shard, in its select
\* (so after a sweep in progress has ended), takes the value and stops; one
\* step releases one sender at most. So a sender on a stopped janitor is
\* never released. And a send on a running janitor is followed by the
\* janitor stopping.
C30_StopHandOff ==
    /\ [][\A s \in StopShards :
            /\ \A p \in Procs :
                Sending(p, s) =>
                    \/ proc'[p] = proc[p] /\ ret'[p] = ret[p]
                    \/ /\ jan[s].pc = "select"
                       /\ jan'[s].pc = "stopped"
                       /\ proc'[p].pc = "idle"
                       /\ ret'[p].op = "stopJanitor"
            /\ \A p \in Procs : \A q \in Procs \ {p} :
                (Sending(p, s) /\ Sending(q, s))
                    => (proc'[p] = proc[p] \/ proc'[q] = proc[q])]_vars
    /\ \A s \in StopShards : \A p \in Procs :
            Sending(p, s) ~> (jan[s].pc = "stopped")

\* C30: the first stopJanitor has returned, the janitor has stopped, and a
\* second stopJanitor on the same shard is in its send
W30_SecondSendBlocked ==
    \E s \in StopShards : \E p \in Procs : \E q \in Procs \ {p} :
        /\ jan[s].pc = "stopped"
        /\ ret[p].op = "stopJanitor" /\ proc[p].pc = "idle"
        /\ Sending(q, s)

\* every goroutine that got the Cache from Init has let go of it
Dropped == \A p \in Holders : proc[p].pc = "dropped"

\* C31: the finalizer stops the janitors of a cache nobody uses any more:
\* once every holder of the Cache has let go of it, the janitor of each
\* shard eventually receives the stop signal and is stopped. (The janitor
\* goroutine holds its shard as the argument of run, so the shard of a
\* running janitor never becomes garbage and its finalizer is never called.)
C31_FinalizerStops ==
    \A s \in StopShards : Dropped ~> (jan[s].pc = "stopped")

\* C31: the Cache was let go, the finalizer goroutine has nothing to run
\* and the janitor is in the middle of a sweep
W31_DroppedStillSweeping ==
    \E s \in StopShards :
        /\ Dropped
        /\ jan[s].pc = "scan"
        /\ proc[runfinq].pc = "idle"

\* C32: the counters take a stale entry for a live one and keep its
\* expiration. When Increment or Decrement comes to its write with an entry
\* for its key in the map - expired or not - an integer v gives v + n (or
\* v - n) with a nil error, stored under the expiration the entry had, and a
\* value of another type leaves the entry as it is; neither restarts from n
\* nor reports a missing key. And a scan whose sampled time is past that
\* expiration removes the entry, updated or not.
C32_CountersOnStale ==
    [][/\ \A p \in Procs :
            LET k == proc[p].key
                cur == Lookup(items[GroupOf[k]], k)
                d == IF proc[p].pc = "Increment_Write"
                     THEN proc[p].n ELSE 0 - proc[p].n
            IN
            (/\ proc[p].pc \in {"Increment_Write", "Decrement_Write"}
             /\ proc'[p].pc = "idle"
             /\ InMap(k))
                => /\ InMapAfter(k)
                   /\ EntryAfter(k).Expiration = cur.Expiration
                   /\ ret'[p].err # "undefined_key"
                   /\ IF cur.value.t = "int"
                      THEN /\ ret'[p].err = "nil"
                           /\ ret'[p].val = IntV(cur.value.v + d)
                           /\ EntryAfter(k).value = IntV(cur.value.v + d)
                      ELSE EntryAfter(k) = cur
       /\ \A s \in StopShards :
            (jan[s].pc = "scan" /\ jan'[s].pc = "select")
                => \A k \in HotKeys :
                        (/\ Present(items[s], k)
                         /\ items[s][k].Expiration > 0
                         /\ jan[s].now > items[s][k].Expiration)
                            => ~Present(items'[s], k)]_vars

\* C32: Increment holds the lock and has read an integer entry whose
\* expiration lies in the past, and the janitor of the shard, which sampled
\* a time past that expiration, waits for the lock
W32_StaleCounterRead ==
    \E p \in Procs :
        LET s == GroupOf[proc[p].key] IN
        /\ proc[p].pc = "Increment_Write"
        /\ proc[p].ok
        /\ proc[p].v.value.t = "int"
        /\ Expired(proc[p].v, now)
        /\ jan[s].pc = "lock"
        /\ Expired(proc[p].v, jan[s].now)

\* C33: Add on a key that is in the map is lost, expired or not. The step
\* in which Add leaves with an entry for its key in the map changes no map
\* and returns nil; a scan whose sampled time is past the expiration of an
\* entry removes it; and Has returns whether the key is in the map. So once
\* the expired entry is swept, Has is false although Add returned nil and
\* its time to live has not passed.
C33_AddOnExpiredLost ==
    [][/\ \A p \in Procs :
            (/\ proc[p].pc = "Add_Store"
             /\ proc'[p].pc = "idle"
             /\ InMap(proc[p].key))
                => /\ items' = items
                   /\ ret'[p].op = "Add"
                   /\ ret'[p].err = "nil"
       /\ \A s \in StopShards :
            (jan[s].pc = "scan" /\ jan'[s].pc = "select")
                => \A k \in HotKeys :
                        (/\ Present(items[s], k)
                         /\ items[s][k].Expiration > 0
                         /\ jan[s].now > items[s][k].Expiration)
                            => ~Present(items'[s], k)
       /\ \A p \in Procs :
            (proc[p].pc = "Has_Read" /\ proc'[p].pc = "idle")
                => ret'[p].val = BoolV(InMap(proc[p].key))]_vars

\* C33: the last call of the first goroutine was an Add with a time to
\* live that has not passed, it returned nil, and the key is not in the map
\* when Has reads it: the Add found the expired entry of an earlier Put
\* and stored nothing, and the janitor has swept that entry since
W33_AddedButAbsent ==
    \E p \in Caller : \E q \in Direct \ {p} :
        /\ proc[p].pc = "idle"
        /\ ret[p].op = "Add" /\ ret[p].err = "nil"
        /\ proc[q].pc = "Has_Read"
        /\ proc[q].key = ret[p].key
        /\ ~InMap(ret[p].key)

\* C34: key ownership. In every reachable state every key in the map of
\* shard i hashes to i (i = fnv32(k) mod 32), so a key has an entry in one
\* shard at most; no operation, Flush and the janitors included, ever puts
\* an entry into another shard.
C34_KeyOwnership ==
    /\ \A s \in Shards : \A k \in DOMAIN items[s] :
            k \in OwnKeys /\ GroupOf[k] = s
    /\ \A k \in OwnKeys :
            Cardinality({s \in Shards : Present(items[s], k)}) <= 1

\* C34: the three keys are all in the cache, "a" and "A" in one shard and
\* "b" in another, each in the shard of its hash
W34_TwoShardsFilled ==
    /\ \A k \in OwnKeys : Present(items[GroupOf[k]], k)
    /\ Cardinality({GroupOf[k] : k \in OwnKeys}) = 2

\* the steps of the operations on one key
SingleKeyPcs == {"Put_Lock", "Put_Store", "Add_Lock", "Add_Check",
                 "Add_Store", "Forever_Lock", "Forever_Store",
                 "Forget_Lock", "Forget_Delete", "Pull_RLock", "Pull_Read",
                 "Pull_Lock", "Pull_Delete", "Increment_Lock",
                 "Increment_Read", "Increment_Write", "Decrement_Lock",
                 "Decrement_Read", "Decrement_Write", "Get_RLock",
                 "Get_Read", "Has_RLock", "Has_Read"}

ReadOnlyPcs == {"Get_RLock", "Get_Read", "Has_RLock", "Has_Read"}

\* the map of shard s is the same before and after the step, but for key k
SameBut(s, k) ==
    /\ DOMAIN items'[s] \ {k} = DOMAIN items[s] \ {k}
    /\ \A x \in DOMAIN items[s] \ {k} : items'[s][x] = items[s][x]

\* C35: single-key operations have a single-key effect. A step of Put, Add,
\* Forever, Forget, Pull, Increment or Decrement on key k leaves the entry
\* (presence, value, expiration) of every other key as it is, in the shard
\* of k and in every other shard; a step of Get or Has changes no map; the
\* start of a call changes no map; and a step of the janitor of shard i
\* leaves the maps of all other shards as they are.
C35_SingleKeyEffect ==
    [][/\ \A p \in Procs :
            proc'[p] # proc[p] =>
                /\ proc[p].pc \in SingleKeyPcs =>
                        \A s \in Shards : SameBut(s, proc[p].key)
                /\ proc[p].pc \in ReadOnlyPcs \cup {"idle"} => items' = items
       /\ \A s \in Shards :
            jan'[s] # jan[s] =>
                \A o \in Shards \ {s} : items'[o] = items[o]]_vars

\* C35: Forget has removed its key, and the other key of the same shard
\* and the key of the other shard are still there
W35_ForgotOneOfThree ==
    \E p \in Procs :
        LET k == ret[p].key IN
        /\ proc[p].pc = "idle"
        /\ ret[p].op = "Forget"
        /\ ~InMap(k)
        /\ \E x \in OwnKeys \ {k} : GroupOf[x] = GroupOf[k] /\ InMap(x)
        /\ \E y \in OwnKeys : GroupOf[y] # GroupOf[k] /\ InMap(y)

\* the shards whose lock `id` holds, for writing or for reading
HeldBy(id) == {s \in Shards : mu[s].w = id \/ id \in mu[s].r}

\* the pcs at which a caller waits in Lock or RLock
LockPcs == {"Put_Lock", "Add_Lock", "Forever_Lock", "Forget_Lock",
            "Pull_Lock", "Increment_Lock", "Decrement_Lock", "Flush_Lock",
            "Get_RLock", "Has_RLock", "Pull_RLock"}

\* C36: no thread ever holds two shard locks. In every reachable state a
\* caller holds the lock of one shard at most and a janitor that of its own
\* shard only; a thread that is about to take a lock holds none - Flush has
\* released shard i when it goes for shard i + 1, Pull has released the read
\* lock of its Get when it goes for the write lock of its delete, the
\* janitor holds nothing when it calls Lock - so nobody waits for a lock
\* while holding another and there is no cycle of waiting.
C36_OneLockPerThread ==
    /\ \A p \in Procs :
        /\ Cardinality(HeldBy(p)) <= 1
        /\ proc[p].pc \in LockPcs \cup {"idle"} => HeldBy(p) = {}
        /\ proc[p].pc = "Flush_Clear" => HeldBy(p) = {proc[p].i}
    /\ \A s \in Shards :
        /\ HeldBy(JanitorId(s)) \subseteq {s}
        /\ jan[s].pc \in {"select", "lock"} => HeldBy(JanitorId(s)) = {}

\* C36: Flush, past the first shard, holds the lock of the shard it is
\* clearing and no other, while a Pull that has released its read lock
\* waits to take the write lock
W36_FlushHoldsOne ==
    \E p \in Procs : \E q \in Procs \ {p} :
        /\ proc[p].pc = "Flush_Clear"
        /\ proc[p].i > 0
        /\ HeldBy(p) = {proc[p].i}
        /\ proc[q].pc = "Pull_Lock"
        /\ HeldBy(q) = {}

\* C37: a number of seconds that is not positive means no expiration. Put
\* computes its expiration when it is called and Add when it stores: 0 for
\* seconds <= 0, negative numbers included, and the current time plus the
\* seconds, which is past the current time, for seconds > 0; the entry is
\* stored with that expiration. An entry whose expiration is 0 goes through
\* every scan unchanged.
C37_NonPositiveTtl ==
    [][/\ \A p \in Procs :
            (proc[p].pc = "idle" /\ proc'[p].pc = "Put_Lock") =>
                IF proc'[p].seconds > 0
                THEN /\ proc'[p].e = now + proc'[p].seconds
                     /\ proc'[p].e > now
                ELSE proc'[p].e = 0
       /\ \A p \in Procs :
            (proc[p].pc = "Put_Store" /\ proc'[p].pc = "idle") =>
                /\ EntryAfter(proc[p].key).Expiration = proc[p].e
                /\ proc[p].seconds <= 0 => proc[p].e = 0
                /\ proc[p].seconds > 0 => proc[p].e > 0
       /\ \A p \in Procs :
            (/\ proc[p].pc = "Add_Store" /\ proc'[p].pc = "idle"
             /\ ~InMap(proc[p].key)) =>
                IF proc[p].seconds > 0
                THEN /\ EntryAfter(proc[p].key).Expiration
                            = now + proc[p].seconds
                     /\ EntryAfter(proc[p].key).Expiration > now
                ELSE EntryAfter(proc[p].key).Expiration = 0
       /\ \A s \in StopShards :
            (jan[s].pc = "scan" /\ jan'[s].pc = "select") =>
                \A k \in DOMAIN items[s] :
                    items[s][k].Expiration = 0 =>
                        /\ Present(items'[s], k)
                        /\ items'[s][k] = items[s][k]]_vars

\* C37: the entry stored with a negative number of seconds (its value is
\* that number) has expiration 0 and is still in the map after a sweep
\* that sampled the last time of the clock
W37_NegativeTtlSurvives ==
    \E k \in HotKeys :
        LET s == GroupOf[k] IN
        /\ InMap(k)
        /\ items[s][k].value.t = "int"
        /\ items[s][k].value.v < 0
        /\ items[s][k].Expiration = 0
        /\ jan[s].pc = "select"
        /\ jan[s].now = MaxTime
        /\ \A p \in Procs : proc[p].pc = "idle"

\* C38: the Add of the Redis backend stores only if the key does not exist,
\* also under concurrency: the step in which an Add leaves never changes
\* the value of a key that is live on the server, so of two concurrent Adds
\* on a missing key the value one of them stored is not overwritten by the
\* other.
C38_RedisAddOnce ==
    [][\A p \in Procs :
        LET k == RedisKey(proc[p].key) IN
        (/\ proc[p].pc \in {"Redis_Add_Exists", "Redis_Add_Set"}
         /\ proc'[p].pc = "idle"
         /\ RedisLive(k))
            => /\ k \in DOMAIN rds'
               /\ rds'[k].bytes = rds[k].bytes]_vars

\* C38: two Adds have both been told that the key does not exist, one of
\* them has stored its value and the other is about to store its own
W38_SecondSetPending ==
    \E p \in Procs : \E q \in Procs \ {p} :
        LET k == RedisKey(proc[q].key) IN
        /\ ret[p].op = "Add" /\ proc[p].pc = "idle"
        /\ proc[q].pc = "Redis_Add_Set"
        /\ RedisLive(k)
        /\ rds[k].bytes = Marshal(IntV(p))

\* The fold of the claim, computed on the four bytes of a 32-bit word, the
\* lowest first: 2166136261 = 0x811C9DC5 and 16777619 = 0x01000193.
FoldBasis == <<197, 157, 28, 129>>
FoldPrime == <<147, 1, 0, 1>>

\* (h * 16777619) mod 2^32, by long multiplication in base 256
FoldMul(h) ==
    LET q == FoldPrime
        c1 == h[1] * q[1]
        c2 == h[2] * q[1] + h[1] * q[2] + (c1 \div 256)
        c3 == h[3] * q[1] + h[2] * q[2] + h[1] * q[3] + (c2 \div 256)
        c4 == h[4] * q[1] + h[3] * q[2] + h[2] * q[3] + h[1] * q[4]
                + (c3 \div 256)
    IN  <<c1 % 256, c2 % 256, c3 % 256, c4 % 256>>

BitOf(x, i) == (x \div (2 ^ i)) % 2

\* h XOR b for a byte b: only the lowest byte of h changes
FoldXor(h, b) ==
    LET Bit(i) == (BitOf(h[1], i) + BitOf(b, i)) % 2 IN
    <<Bit(0) + 2 * Bit(1) + 4 * Bit(2) + 8 * Bit(3) + 16 * Bit(4)
        + 32 * Bit(5) + 64 * Bit(6) + 128 * Bit(7),
      h[2], h[3], h[4]>>

RECURSIVE Fold(_, _)
Fold(key, n) ==
    IF n = 0 THEN FoldBasis
    ELSE FoldXor(FoldMul(Fold(key, n - 1)), key[n])

\* the four bytes as the two 16-bit halves, the high one first
Halves(h) == <<h[4] * 256 + h[3], h[2] * 256 + h[1]>>

\* C39: fnv32 is the stated 32-bit hash. What a caller gets from fnv32(key)
\* is the fold that starts at 2166136261 and, for each byte of the key in
\* order, multiplies by 16777619 modulo 2^32 and then xors the byte in; it
\* lies in [0, 2^32); for the empty key it is 2166136261; and the shard
\* index a caller gets for the key is that number modulo 32.
C39_Fnv32Fold ==
    \A p \in Procs :
        LET want == Fold(ret[p].key, Len(ret[p].key)) IN
        /\ ret[p].op = "fnv32" =>
            /\ ret[p].val = Uint32V(Halves(want))
            /\ ret[p].val.v[1] \in 0..65535
            /\ ret[p].val.v[2] \in 0..65535
            /\ ret[p].key = <<>> => ret[p].val.v = <<33052, 40389>>
        /\ ret[p].op = "getGroup" => ret[p].val = IntV(want[1] % 32)

\* C39: one caller has got the hash of "a", which is 0x050C5D7E, and
\* another one the hash of the empty key, which is 0x811C9DC5
W39_HashOfA ==
    \E p \in Procs : \E q \in Procs \ {p} :
        /\ ret[p].op = "fnv32" /\ ret[p].key = <<97>>
        /\ ret[p].val.v = <<1292, 23934>>
        /\ ret[q].op = "fnv32" /\ ret[q].key = <<>>
        /\ ret[q].val.v = <<33052, 40389>>

====
